---- MODULE Spec2Model ----
(***************************************************************************)
(* A model of jink (lasseh/jink): the JunOS lexer, the escape segmenter    *)
(* and stripper, the Highlighter, the Terminal output relay and the        *)
(* one-shot stdin filter.                                                  *)
(*                                                                         *)
(* Text is modelled byte by byte: a Go string is a sequence of byte values *)
(* (0..255), so that the byte ranges of the escape grammar and the regular *)
(* expressions of the lexer are the source's own.                          *)
(***************************************************************************)
EXTENDS Integers, Sequences, FiniteSets, TLC

(***************************************************************************)
(* Bounds of the model.                                                    *)
(***************************************************************************)
\* longest byte string enumerated for the escape segmenter and stripper
MaxSegLen == 5

\* most pieces concatenated into one lexer or highlighter input
MaxPieces == 3

\* lineFlushLimit (highlighter.go:1086): the line buffer is flushed when it
\* grows beyond this many bytes; 4000 in the source, scaled to the streams of
\* the model
lineFlushLimit == 2

\* the longest stream the terminal relays
MaxStreamLen == 4

\* the most complete lines the stdin filter reads
MaxLines == 3

(***************************************************************************)
(* Bytes the source names or writes as literals.                           *)
(***************************************************************************)
escapeChar    == 27
csiBracket    == 91
csiParamStart == 32
csiParamEnd   == 63
csiFinalStart == 64
csiFinalEnd   == 126
csiIntermEnd  == 47
chTab         == 9
chLF          == 10
chVT          == 11
chFF          == 12
chCR          == 13
chSpace       == 32

(***************************************************************************)
(* Go string helpers (package strings and slicing).                        *)
(***************************************************************************)
\* s[i:j] of Go, with 0-based i (inclusive) and j (exclusive)
Slice(s, i, j) == SubSeq(s, i + 1, j)

\* s[i] of Go, 0-based
At(s, i) == s[i + 1]

RECURSIVE Concat(_)
\* the concatenation of a sequence of strings
Concat(ss) == IF ss = <<>> THEN <<>> ELSE Head(ss) \o Concat(Tail(ss))

HasPrefix(s, p) == Len(s) >= Len(p) /\ SubSeq(s, 1, Len(p)) = p

HasSuffix(s, p) == Len(s) >= Len(p) /\ SubSeq(s, Len(s) - Len(p) + 1, Len(s)) = p

\* strings.Contains
Contains(s, sub) ==
    \E i \in 0..(Len(s) - Len(sub)) : SubSeq(s, i + 1, i + Len(sub)) = sub

\* strings.Index for a single byte: the first 0-based index of b, or -1
IndexByte(s, b) ==
    IF \E i \in 1..Len(s) : s[i] = b
    THEN (CHOOSE i \in 1..Len(s) : s[i] = b /\ \A j \in 1..(i - 1) : s[j] # b) - 1
    ELSE -1

\* strings.ToLower on ASCII
LowerByte(b) == IF b >= 65 /\ b <= 90 THEN b + 32 ELSE b

ToLower(s) == [i \in 1..Len(s) |-> LowerByte(s[i])]

\* the ASCII bytes unicode.IsSpace accepts (strings.TrimSpace)
IsSpaceByte(b) == b \in {chTab, chLF, chVT, chFF, chCR, chSpace}

RECURSIVE TrimRightSet(_, _)
\* strings.TrimRight(s, cutset)
TrimRightSet(s, cutset) ==
    IF s # <<>> /\ s[Len(s)] \in cutset
    THEN TrimRightSet(SubSeq(s, 1, Len(s) - 1), cutset)
    ELSE s

RECURSIVE TrimLeftSet(_, _)
TrimLeftSet(s, cutset) ==
    IF s # <<>> /\ s[1] \in cutset THEN TrimLeftSet(Tail(s), cutset) ELSE s

SpaceBytes == {chTab, chLF, chVT, chFF, chCR, chSpace}

\* strings.TrimSpace
TrimSpace(s) == TrimLeftSet(TrimRightSet(s, SpaceBytes), SpaceBytes)

(***************************************************************************)
(* Escape segmenter and stripper (highlighter.go).                         *)
(***************************************************************************)
isCSIParamByte(b) == b >= csiParamStart /\ b <= csiParamEnd

isCSIFinalByte(b) == b >= csiFinalStart /\ b <= csiFinalEnd

isCSIIntermediateByte(b) == b >= csiParamStart /\ b <= csiIntermEnd

RECURSIVE SkipWhileParam(_, _)
\* the first loop of skipCSISequence
SkipWhileParam(input, i) ==
    IF i < Len(input) /\ isCSIParamByte(At(input, i))
    THEN SkipWhileParam(input, i + 1)
    ELSE i

\* skipCSISequence(input, i): the position after the CSI sequence whose
\* parameters start at i (after ESC '[')
skipCSISequence(input, i) ==
    LET j == SkipWhileParam(input, i)
    IN  IF j < Len(input) /\ isCSIFinalByte(At(input, j)) THEN j + 1 ELSE j

RECURSIVE SkipWhileIntermediate(_, _)
SkipWhileIntermediate(input, i) ==
    IF i < Len(input) /\ isCSIIntermediateByte(At(input, i))
    THEN SkipWhileIntermediate(input, i + 1)
    ELSE i

\* skipOtherEscapeSequence(input, i)
skipOtherEscapeSequence(input, i) ==
    LET j == SkipWhileIntermediate(input, i)
    IN  IF j < Len(input) THEN j + 1 ELSE j

\* the test both extractSegments and StripANSI make for ESC '['
StartsCSI(input, i) ==
    At(input, i) = escapeChar /\ i + 1 < Len(input) /\ At(input, i + 1) = csiBracket

\* a segment{text, isEscape}
Seg(text, isEscape) == [text |-> text, isEscape |-> isEscape]

\* the flush of the text buffer into the segment list
FlushText(segments, textBuf) ==
    IF Len(textBuf) > 0 THEN Append(segments, Seg(textBuf, FALSE)) ELSE segments

RECURSIVE ExtractLoop(_, _, _, _)
\* the loop of extractSegments, with its locals i, textBuf and segments
ExtractLoop(input, i, textBuf, segments) ==
    IF i >= Len(input) THEN FlushText(segments, textBuf)
    ELSE IF StartsCSI(input, i)
         THEN LET j == skipCSISequence(input, i + 2)
              IN  ExtractLoop(input, j, <<>>,
                              Append(FlushText(segments, textBuf),
                                     Seg(Slice(input, i, j), TRUE)))
         ELSE ExtractLoop(input, i + 1, Append(textBuf, At(input, i)), segments)

\* extractSegments without its final "flush remaining text"
extractSegmentsNoFinalFlush(input) ==
    LET segs == ExtractLoop(input, 0, <<>>, <<>>)
    IN  IF segs # <<>> /\ ~segs[Len(segs)].isEscape
        THEN SubSeq(segs, 1, Len(segs) - 1)
        ELSE segs

extractSegments(input) == ExtractLoop(input, 0, <<>>, <<>>)

RECURSIVE StripLoop(_, _, _)
\* the loop of StripANSI, with its locals i and buf
StripLoop(input, i, buf) ==
    IF i >= Len(input) THEN buf
    ELSE IF StartsCSI(input, i)
         THEN StripLoop(input, skipCSISequence(input, i + 2), buf)
         ELSE IF At(input, i) = escapeChar
              THEN StripLoop(input, skipOtherEscapeSequence(input, i + 1), buf)
              ELSE StripLoop(input, i + 1, Append(buf, At(input, i)))

RECURSIVE StripCSILoop(_, _, _)
\* StripLoop without its branch for the escape sequences that are not CSI
StripCSILoop(input, i, buf) ==
    IF i >= Len(input) THEN buf
    ELSE IF StartsCSI(input, i)
         THEN StripCSILoop(input, skipCSISequence(input, i + 2), buf)
         ELSE StripCSILoop(input, i + 1, Append(buf, At(input, i)))

StripANSICSIOnly(input) == StripCSILoop(input, 0, <<>>)

StripANSI(input) == StripLoop(input, 0, <<>>)

\* HasANSI
HasANSI(input) == Contains(input, <<escapeChar, csiBracket>>)

(***************************************************************************)
(* Keyword sets of the lexer (lexer.go), each word as its bytes.           *)
(***************************************************************************)
\* commands (lexer.go:46-55), 33 words
commands == {
    <<115,101,116>>,  \* set
    <<100,101,108,101,116,101>>,  \* delete
    <<100,101,97,99,116,105,118,97,116,101>>,  \* deactivate
    <<97,99,116,105,118,97,116,101>>,  \* activate
    <<112,114,111,116,101,99,116>>,  \* protect
    <<117,110,112,114,111,116,101,99,116>>,  \* unprotect
    <<101,100,105,116>>,  \* edit
    <<115,104,111,119>>,  \* show
    <<114,101,113,117,101,115,116>>,  \* request
    <<114,117,110>>,  \* run
    <<105,110,115,101,114,116>>,  \* insert
    <<114,101,110,97,109,101>>,  \* rename
    <<99,111,112,121>>,  \* copy
    <<116,111,112>>,  \* top
    <<117,112>>,  \* up
    <<101,120,105,116>>,  \* exit
    <<113,117,105,116>>,  \* quit
    <<99,111,109,109,105,116>>,  \* commit
    <<114,111,108,108,98,97,99,107>>,  \* rollback
    <<108,111,97,100>>,  \* load
    <<115,97,118,101>>,  \* save
    <<99,111,110,102,105,103,117,114,101>>,  \* configure
    <<99,108,105>>,  \* cli
    <<104,101,108,112>>,  \* help
    <<99,108,101,97,114>>,  \* clear
    <<114,101,115,116,97,114,116>>,  \* restart
    <<115,116,97,114,116>>,  \* start
    <<115,116,111,112>>,  \* stop
    <<109,111,110,105,116,111,114>>,  \* monitor
    <<112,105,110,103>>,  \* ping
    <<116,114,97,99,101,114,111,117,116,101>>,  \* traceroute
    <<115,115,104>>,  \* ssh
    <<116,101,108,110,101,116>>  \* telnet
}

\* sections (lexer.go:57-80), 47 words
sections == {
    <<115,121,115,116,101,109>>,  \* system
    <<99,104,97,115,115,105,115>>,  \* chassis
    <<105,110,116,101,114,102,97,99,101,115>>,  \* interfaces
    <<114,111,117,116,105,110,103,45,111,112,116,105,111,110,115>>,  \* routing-options
    <<114,111,117,116,105,110,103,45,105,110,115,116,97,110,99,101,115>>,  \* routing-instances
    <<112,114,111,116,111,99,111,108,115>>,  \* protocols
    <<112,111,108,105,99,121,45,111,112,116,105,111,110,115>>,  \* policy-options
    <<102,105,114,101,119,97,108,108>>,  \* firewall
    <<115,101,99,117,114,105,116,121>>,  \* security
    <<99,108,97,115,115,45,111,102,45,115,101,114,118,105,99,101>>,  \* class-of-service
    <<97,112,112,108,105,99,97,116,105,111,110,115>>,  \* applications
    <<115,101,114,118,105,99,101,115>>,  \* services
    <<115,110,109,112>>,  \* snmp
    <<102,111,114,119,97,114,100,105,110,103,45,111,112,116,105,111,110,115>>,  \* forwarding-options
    <<103,114,111,117,112,115>>,  \* groups
    <<97,112,112,108,121,45,103,114,111,117,112,115>>,  \* apply-groups
    <<97,112,112,108,121,45,103,114,111,117,112,115,45,101,120,99,101,112,116>>,  \* apply-groups-except
    <<118,108,97,110,115>>,  \* vlans
    <<98,114,105,100,103,101,45,100,111,109,97,105,110,115>>,  \* bridge-domains
    <<118,105,114,116,117,97,108,45,99,104,97,115,115,105,115>>,  \* virtual-chassis
    <<109,117,108,116,105,45,99,104,97,115,115,105,115>>,  \* multi-chassis
    <<97,99,99,101,115,115>>,  \* access
    <<101,116,104,101,114,110,101,116,45,115,119,105,116,99,104,105,110,103,45,111,112,116,105,111,110,115>>,  \* ethernet-switching-options
    <<115,119,105,116,99,104,45,111,112,116,105,111,110,115>>,  \* switch-options
    <<112,111,101>>,  \* poe
    <<101,118,101,110,116,45,111,112,116,105,111,110,115>>,  \* event-options
    <<97,99,99,111,117,110,116,105,110,103,45,111,112,116,105,111,110,115>>,  \* accounting-options
    <<108,111,103,105,99,97,108,45,115,121,115,116,101,109,115>>,  \* logical-systems
    <<116,101,110,97,110,116,115>>,  \* tenants
    <<101,118,112,110>>,  \* evpn
    <<118,120,108,97,110>>,  \* vxlan
    <<109,97,99,45,118,114,102>>,  \* mac-vrf
    <<118,105,114,116,117,97,108,45,115,119,105,116,99,104>>,  \* virtual-switch
    <<111,118,101,114,108,97,121>>,  \* overlay
    <<117,110,100,101,114,108,97,121>>,  \* underlay
    <<100,121,110,97,109,105,99,45,112,114,111,102,105,108,101,115>>,  \* dynamic-profiles
    <<115,117,98,115,99,114,105,98,101,114,45,109,97,110,97,103,101,109,101,110,116>>,  \* subscriber-management
    <<117,110,105,102,105,101,100,45,101,100,103,101>>,  \* unified-edge
    <<100,105,97,109,101,116,101,114>>,  \* diameter
    <<97,97,97>>,  \* aaa
    <<97,100,100,114,101,115,115,45,97,115,115,105,103,110,109,101,110,116>>,  \* address-assignment
    <<97,99,99,101,115,115,45,112,114,111,102,105,108,101>>,  \* access-profile
    <<111,112,101,110,99,111,110,102,105,103>>,  \* openconfig
    <<116,101,108,101,109,101,116,114,121>>,  \* telemetry
    <<115,116,114,101,97,109,105,110,103,45,116,101,108,101,109,101,116,114,121>>,  \* streaming-telemetry
    <<103,114,112,99>>,  \* grpc
    <<103,110,109,105>>  \* gnmi
}

\* protocols (lexer.go:82-123), 103 words
protocols == {
    <<111,115,112,102>>,  \* ospf
    <<111,115,112,102,51>>,  \* ospf3
    <<98,103,112>>,  \* bgp
    <<105,115,105,115>>,  \* isis
    <<105,115,45,105,115>>,  \* is-is
    <<114,105,112>>,  \* rip
    <<114,105,112,110,103>>,  \* ripng
    <<108,100,112>>,  \* ldp
    <<114,115,118,112>>,  \* rsvp
    <<109,112,108,115>>,  \* mpls
    <<118,112,108,115>>,  \* vpls
    <<101,118,112,110>>,  \* evpn
    <<112,105,109>>,  \* pim
    <<105,103,109,112>>,  \* igmp
    <<109,108,100>>,  \* mld
    <<109,115,100,112>>,  \* msdp
    <<98,102,100>>,  \* bfd
    <<108,97,99,112>>,  \* lacp
    <<108,108,100,112>>,  \* lldp
    <<108,108,100,112,45,109,101,100>>,  \* lldp-med
    <<114,115,116,112>>,  \* rstp
    <<109,115,116,112>>,  \* mstp
    <<118,115,116,112>>,  \* vstp
    <<115,116,112>>,  \* stp
    <<118,114,114,112>>,  \* vrrp
    <<100,111,116,49,120>>,  \* dot1x
    <<111,97,109>>,  \* oam
    <<99,102,109>>,  \* cfm
    <<116,99,112>>,  \* tcp
    <<117,100,112>>,  \* udp
    <<105,99,109,112>>,  \* icmp
    <<105,99,109,112,54>>,  \* icmp6
    <<105,99,109,112,118,54>>,  \* icmpv6
    <<103,114,101>>,  \* gre
    <<105,112,105,112>>,  \* ipip
    <<101,115,112>>,  \* esp
    <<97,104>>,  \* ah
    <<115,99,116,112>>,  \* sctp
    <<105,110,101,116>>,  \* inet
    <<105,110,101,116,54>>,  \* inet6
    <<105,115,111>>,  \* iso
    <<99,99,99>>,  \* ccc
    <<98,114,105,100,103,101>>,  \* bridge
    <<101,116,104,101,114,110,101,116,45,115,119,105,116,99,104,105,110,103>>,  \* ethernet-switching
    <<105,110,101,116,45,118,112,110>>,  \* inet-vpn
    <<105,110,101,116,54,45,118,112,110>>,  \* inet6-vpn
    <<108,50,118,112,110>>,  \* l2vpn
    <<115,115,104>>,  \* ssh
    <<116,101,108,110,101,116>>,  \* telnet
    <<102,116,112>>,  \* ftp
    <<116,102,116,112>>,  \* tftp
    <<104,116,116,112>>,  \* http
    <<104,116,116,112,115>>,  \* https
    <<110,116,112>>,  \* ntp
    <<100,110,115>>,  \* dns
    <<100,104,99,112>>,  \* dhcp
    <<114,97,100,105,117,115>>,  \* radius
    <<116,97,99,112,108,117,115>>,  \* tacplus
    <<115,121,115,108,111,103>>,  \* syslog
    <<110,101,116,99,111,110,102>>,  \* netconf
    <<106,117,110,111,115,99,114,105,112,116>>,  \* junoscript
    <<118,120,108,97,110>>,  \* vxlan
    <<118,116,101,112>>,  \* vtep
    <<118,110,105>>,  \* vni
    <<101,115,105>>,  \* esi
    <<108,50,99,105,114,99,117,105,116>>,  \* l2circuit
    <<108,51,118,112,110>>,  \* l3vpn
    <<109,99,45,108,97,103>>,  \* mc-lag
    <<105,103,109,112,45,115,110,111,111,112,105,110,103>>,  \* igmp-snooping
    <<109,108,100,45,115,110,111,111,112,105,110,103>>,  \* mld-snooping
    <<108,50,45,108,101,97,114,110,105,110,103>>,  \* l2-learning
    <<115,111,117,114,99,101,45,112,97,99,107,101,116,45,114,111,117,116,105,110,103>>,  \* source-packet-routing
    <<115,112,114,105,110,103>>,  \* spring
    <<115,114,118,54>>,  \* srv6
    <<115,101,103,109,101,110,116,45,114,111,117,116,105,110,103>>,  \* segment-routing
    <<112,99,101,112>>,  \* pcep
    <<116,101>>,  \* te
    <<115,114,45,116,101>>,  \* sr-te
    <<115,114,45,109,112,108,115>>,  \* sr-mpls
    <<115,114,45,112,111,108,105,99,121>>,  \* sr-policy
    <<112,112,112,111,101>>,  \* pppoe
    <<112,112,112>>,  \* ppp
    <<108,50,116,112>>,  \* l2tp
    <<100,104,99,112,118,54>>,  \* dhcpv6
    <<100,105,97,109,101,116,101,114>>,  \* diameter
    <<103,120>>,  \* gx
    <<103,121>>,  \* gy
    <<110,97,115,114,101,113>>,  \* nasreq
    <<115,117,98,115,99,114,105,98,101,114>>,  \* subscriber
    <<105,107,101>>,  \* ike
    <<105,112,115,101,99>>,  \* ipsec
    <<97,108,103>>,  \* alg
    <<115,105,112>>,  \* sip
    <<104,51,50,51>>,  \* h323
    <<109,103,99,112>>,  \* mgcp
    <<115,99,99,112>>,  \* sccp
    <<114,116,115,112>>,  \* rtsp
    <<112,112,116,112>>,  \* pptp
    <<115,117,110,114,112,99>>,  \* sunrpc
    <<109,115,114,112,99>>,  \* msrpc
    <<103,110,109,105>>,  \* gnmi
    <<103,114,112,99>>,  \* grpc
    <<111,112,101,110,99,111,110,102,105,103>>  \* openconfig
}

\* actions (lexer.go:125-180), 105 words
actions == {
    <<97,99,99,101,112,116>>,  \* accept
    <<114,101,106,101,99,116>>,  \* reject
    <<100,105,115,99,97,114,100>>,  \* discard
    <<100,101,110,121>>,  \* deny
    <<112,101,114,109,105,116>>,  \* permit
    <<110,101,120,116>>,  \* next
    <<110,101,120,116,45,116,101,114,109>>,  \* next-term
    <<99,111,117,110,116>>,  \* count
    <<108,111,103>>,  \* log
    <<115,121,115,108,111,103>>,  \* syslog
    <<115,97,109,112,108,101>>,  \* sample
    <<112,111,114,116,45,109,105,114,114,111,114>>,  \* port-mirror
    <<97,110,97,108,121,122,101,114>>,  \* analyzer
    <<110,101,120,116,45,104,111,112>>,  \* next-hop
    <<115,101,108,102>>,  \* self
    <<116,97,98,108,101>>,  \* table
    <<112,111,108,105,99,121>>,  \* policy
    <<99,111,109,109,117,110,105,116,121>>,  \* community
    <<108,111,99,97,108,45,112,114,101,102,101,114,101,110,99,101>>,  \* local-preference
    <<109,101,116,114,105,99>>,  \* metric
    <<111,114,105,103,105,110>>,  \* origin
    <<97,115,45,112,97,116,104>>,  \* as-path
    <<97,115,45,112,97,116,104,45,112,114,101,112,101,110,100>>,  \* as-path-prepend
    <<109,101,100>>,  \* med
    <<112,114,101,102,101,114,101,110,99,101>>,  \* preference
    <<116,97,103>>,  \* tag
    <<99,111,108,111,114>>,  \* color
    <<99,111,108,111,114,50>>,  \* color2
    <<108,111,97,100,45,98,97,108,97,110,99,101>>,  \* load-balance
    <<105,110,115,116,97,108,108,45,110,101,120,116,104,111,112>>,  \* install-nexthop
    <<108,111,115,115,45,112,114,105,111,114,105,116,121>>,  \* loss-priority
    <<108,111,115,115,45,112,114,105,111,114,105,116,121,45,104,105,103,104>>,  \* loss-priority-high
    <<108,111,115,115,45,112,114,105,111,114,105,116,121,45,108,111,119>>,  \* loss-priority-low
    <<108,111,115,115,45,112,114,105,111,114,105,116,121,45,109,101,100,105,117,109,45,104,105,103,104>>,  \* loss-priority-medium-high
    <<108,111,115,115,45,112,114,105,111,114,105,116,121,45,109,101,100,105,117,109,45,108,111,119>>,  \* loss-priority-medium-low
    <<102,111,114,119,97,114,100,105,110,103,45,99,108,97,115,115>>,  \* forwarding-class
    <<102,111,114,119,97,114,100,105,110,103,45,99,108,97,115,115,45,101,120,99,101,112,116>>,  \* forwarding-class-except
    <<112,111,108,105,99,101,114>>,  \* policer
    <<116,104,114,101,101,45,99,111,108,111,114,45,112,111,108,105,99,101,114>>,  \* three-color-policer
    <<100,115,99,112>>,  \* dscp
    <<116,114,97,102,102,105,99,45,99,108,97,115,115>>,  \* traffic-class
    <<116,117,110,110,101,108>>,  \* tunnel
    <<105,112,115,101,99,45,118,112,110>>,  \* ipsec-vpn
    <<115,111,117,114,99,101,45,110,97,116>>,  \* source-nat
    <<100,101,115,116,105,110,97,116,105,111,110,45,110,97,116>>,  \* destination-nat
    <<115,116,97,116,105,99,45,110,97,116>>,  \* static-nat
    <<102,105,114,115,116,45,102,114,97,103,109,101,110,116>>,  \* first-fragment
    <<102,114,97,103,109,101,110,116,45,111,102,102,115,101,116>>,  \* fragment-offset
    <<102,114,97,103,109,101,110,116,45,111,102,102,115,101,116,45,101,120,99,101,112,116>>,  \* fragment-offset-except
    <<105,115,45,102,114,97,103,109,101,110,116>>,  \* is-fragment
    <<102,114,97,103,109,101,110,116,45,102,108,97,103,115>>,  \* fragment-flags
    <<116,99,112,45,105,110,105,116,105,97,108>>,  \* tcp-initial
    <<116,99,112,45,101,115,116,97,98,108,105,115,104,101,100>>,  \* tcp-established
    <<116,99,112,45,102,108,97,103,115>>,  \* tcp-flags
    <<115,121,110>>,  \* syn
    <<97,99,107>>,  \* ack
    <<102,105,110>>,  \* fin
    <<114,115,116>>,  \* rst
    <<112,117,115,104>>,  \* push
    <<117,114,103,101,110,116>>,  \* urgent
    <<105,99,109,112,45,116,121,112,101>>,  \* icmp-type
    <<105,99,109,112,45,116,121,112,101,45,101,120,99,101,112,116>>,  \* icmp-type-except
    <<105,99,109,112,45,99,111,100,101>>,  \* icmp-code
    <<105,99,109,112,45,99,111,100,101,45,101,120,99,101,112,116>>,  \* icmp-code-except
    <<112,97,99,107,101,116,45,108,101,110,103,116,104>>,  \* packet-length
    <<112,97,99,107,101,116,45,108,101,110,103,116,104,45,101,120,99,101,112,116>>,  \* packet-length-except
    <<116,116,108>>,  \* ttl
    <<116,116,108,45,101,120,99,101,112,116>>,  \* ttl-except
    <<104,111,112,45,108,105,109,105,116>>,  \* hop-limit
    <<104,111,112,45,108,105,109,105,116,45,101,120,99,101,112,116>>,  \* hop-limit-except
    <<112,97,121,108,111,97,100,45,112,114,111,116,111,99,111,108>>,  \* payload-protocol
    <<112,97,121,108,111,97,100,45,112,114,111,116,111,99,111,108,45,101,120,99,101,112,116>>,  \* payload-protocol-except
    <<116,114,97,102,102,105,99,45,116,121,112,101>>,  \* traffic-type
    <<116,114,97,102,102,105,99,45,116,121,112,101,45,101,120,99,101,112,116>>,  \* traffic-type-except
    <<115,111,117,114,99,101,45,109,97,99,45,97,100,100,114,101,115,115>>,  \* source-mac-address
    <<100,101,115,116,105,110,97,116,105,111,110,45,109,97,99,45,97,100,100,114,101,115,115>>,  \* destination-mac-address
    <<101,116,104,101,114,45,116,121,112,101>>,  \* ether-type
    <<118,108,97,110,45,101,116,104,101,114,45,116,121,112,101>>,  \* vlan-ether-type
    <<117,115,101,114,45,118,108,97,110,45,105,100>>,  \* user-vlan-id
    <<108,101,97,114,110,45,118,108,97,110,45,105,100>>,  \* learn-vlan-id
    <<100,111,116,49,113,45,116,97,103>>,  \* dot1q-tag
    <<100,111,116,49,113,45,117,115,101,114,45,112,114,105,111,114,105,116,121>>,  \* dot1q-user-priority
    <<105,110,116,101,114,102,97,99,101>>,  \* interface
    <<105,110,116,101,114,102,97,99,101,45,103,114,111,117,112>>,  \* interface-group
    <<105,110,116,101,114,102,97,99,101,45,103,114,111,117,112,45,101,120,99,101,112,116>>,  \* interface-group-except
    <<105,110,116,101,114,102,97,99,101,45,115,101,116>>,  \* interface-set
    <<105,102,108,45,110,117,109,98,101,114>>,  \* ifl-number
    <<105,110,112,117,116,45,105,110,116,101,114,102,97,99,101>>,  \* input-interface
    <<111,117,116,112,117,116,45,105,110,116,101,114,102,97,99,101>>,  \* output-interface
    <<110,101,120,116,45,104,101,97,100,101,114>>,  \* next-header
    <<110,101,120,116,45,104,101,97,100,101,114,45,101,120,99,101,112,116>>,  \* next-header-except
    <<101,120,116,101,110,115,105,111,110,45,104,101,97,100,101,114>>,  \* extension-header
    <<101,120,116,101,110,115,105,111,110,45,104,101,97,100,101,114,45,101,120,99,101,112,116>>,  \* extension-header-except
    <<105,112,45,111,112,116,105,111,110,115>>,  \* ip-options
    <<105,112,45,111,112,116,105,111,110,115,45,101,120,99,101,112,116>>,  \* ip-options-except
    <<102,108,101,120,105,98,108,101,45,109,97,116,99,104,45,109,97,115,107>>,  \* flexible-match-mask
    <<102,108,101,120,105,98,108,101,45,109,97,116,99,104,45,114,97,110,103,101>>,  \* flexible-match-range
    <<108,111,115,115,45,112,114,105,111,114,105,116,121,45,101,120,99,101,112,116>>,  \* loss-priority-except
    <<112,97,99,107,101,116,45,108,101,110,103,116,104,45,114,97,110,103,101>>,  \* packet-length-range
    <<112,111,114,116,45,101,120,99,101,112,116>>,  \* port-except
    <<112,114,101,102,105,120,45,108,105,115,116,45,101,120,99,101,112,116>>,  \* prefix-list-except
    <<115,111,117,114,99,101,45,99,108,97,115,115>>,  \* source-class
    <<100,101,115,116,105,110,97,116,105,111,110,45,99,108,97,115,115>>,  \* destination-class
    <<115,101,114,118,105,99,101,45,102,105,108,116,101,114,45,104,105,116>>,  \* service-filter-hit
    <<112,111,108,105,99,121,45,109,97,112>>  \* policy-map
}

\* keywords (lexer.go:182-362), 386 words
keywords == {
    <<118,101,114,115,105,111,110>>,  \* version
    <<104,111,115,116,45,110,97,109,101>>,  \* host-name
    <<100,111,109,97,105,110,45,110,97,109,101>>,  \* domain-name
    <<110,97,109,101,45,115,101,114,118,101,114>>,  \* name-server
    <<114,111,111,116,45,97,117,116,104,101,110,116,105,99,97,116,105,111,110>>,  \* root-authentication
    <<108,111,103,105,110>>,  \* login
    <<117,115,101,114>>,  \* user
    <<99,108,97,115,115>>,  \* class
    <<97,117,116,104,101,110,116,105,99,97,116,105,111,110>>,  \* authentication
    <<101,110,99,114,121,112,116,101,100,45,112,97,115,115,119,111,114,100>>,  \* encrypted-password
    <<115,115,104,45,114,115,97>>,  \* ssh-rsa
    <<115,115,104,45,100,115,97>>,  \* ssh-dsa
    <<115,115,104,45,101,99,100,115,97>>,  \* ssh-ecdsa
    <<115,115,104,45,101,100,50,53,53,49,57>>,  \* ssh-ed25519
    <<100,101,115,99,114,105,112,116,105,111,110>>,  \* description
    <<100,105,115,97,98,108,101>>,  \* disable
    <<101,110,97,98,108,101>>,  \* enable
    <<105,110,97,99,116,105,118,101>>,  \* inactive
    <<97,112,112,108,121,45,109,97,99,114,111>>,  \* apply-macro
    <<97,112,112,108,121,45,112,97,116,104>>,  \* apply-path
    <<117,110,105,116>>,  \* unit
    <<102,97,109,105,108,121>>,  \* family
    <<97,100,100,114,101,115,115>>,  \* address
    <<118,108,97,110,45,105,100>>,  \* vlan-id
    <<118,108,97,110,45,116,97,103,103,105,110,103>>,  \* vlan-tagging
    <<102,108,101,120,105,98,108,101,45,118,108,97,110,45,116,97,103,103,105,110,103>>,  \* flexible-vlan-tagging
    <<110,97,116,105,118,101,45,118,108,97,110,45,105,100>>,  \* native-vlan-id
    <<109,116,117>>,  \* mtu
    <<115,112,101,101,100>>,  \* speed
    <<100,117,112,108,101,120>>,  \* duplex
    <<97,117,116,111,45,110,101,103,111,116,105,97,116,105,111,110>>,  \* auto-negotiation
    <<110,111,45,97,117,116,111,45,110,101,103,111,116,105,97,116,105,111,110>>,  \* no-auto-negotiation
    <<103,105,103,101,116,104,101,114,45,111,112,116,105,111,110,115>>,  \* gigether-options
    <<101,116,104,101,114,45,111,112,116,105,111,110,115>>,  \* ether-options
    <<97,103,103,114,101,103,97,116,101,100,45,101,116,104,101,114,45,111,112,116,105,111,110,115>>,  \* aggregated-ether-options
    <<108,105,110,107,45,115,112,101,101,100>>,  \* link-speed
    <<109,105,110,105,109,117,109,45,108,105,110,107,115>>,  \* minimum-links
    <<108,97,99,112>>,  \* lacp
    <<97,99,116,105,118,101>>,  \* active
    <<112,97,115,115,105,118,101>>,  \* passive
    <<102,97,115,116>>,  \* fast
    <<115,108,111,119>>,  \* slow
    <<102,111,114,99,101,45,117,112>>,  \* force-up
    <<105,110,116,101,114,102,97,99,101,45,114,97,110,103,101>>,  \* interface-range
    <<109,101,109,98,101,114>>,  \* member
    <<109,101,109,98,101,114,115>>,  \* members
    <<105,110,116,101,114,102,97,99,101,45,109,111,100,101>>,  \* interface-mode
    <<116,114,117,110,107>>,  \* trunk
    <<97,99,99,101,115,115>>,  \* access
    <<115,99,114,105,112,116,115>>,  \* scripts
    <<108,97,110,103,117,97,103,101>>,  \* language
    <<115,121,110,99,104,114,111,110,105,122,101>>,  \* synchronize
    <<108,111,103,105,110,45,97,108,97,114,109,115>>,  \* login-alarms
    <<108,111,103,105,110,45,116,105,112>>,  \* login-tip
    <<112,101,114,109,105,115,115,105,111,110,115>>,  \* permissions
    <<117,105,100>>,  \* uid
    <<103,105,100>>,  \* gid
    <<112,97,115,115,119,111,114,100>>,  \* password
    <<102,111,114,109,97,116>>,  \* format
    <<112,111,114,116>>,  \* port
    <<114,111,111,116,45,108,111,103,105,110>>,  \* root-login
    <<112,114,111,116,111,99,111,108,45,118,101,114,115,105,111,110>>,  \* protocol-version
    <<97,117,116,111,45,115,110,97,112,115,104,111,116>>,  \* auto-snapshot
    <<116,105,109,101,45,122,111,110,101>>,  \* time-zone
    <<102,105,108,116,101,114>>,  \* filter
    <<116,101,114,109>>,  \* term
    <<102,114,111,109>>,  \* from
    <<116,104,101,110>>,  \* then
    <<115,111,117,114,99,101,45,97,100,100,114,101,115,115>>,  \* source-address
    <<100,101,115,116,105,110,97,116,105,111,110,45,97,100,100,114,101,115,115>>,  \* destination-address
    <<115,111,117,114,99,101,45,112,111,114,116>>,  \* source-port
    <<100,101,115,116,105,110,97,116,105,111,110,45,112,111,114,116>>,  \* destination-port
    <<115,111,117,114,99,101,45,112,114,101,102,105,120,45,108,105,115,116>>,  \* source-prefix-list
    <<100,101,115,116,105,110,97,116,105,111,110,45,112,114,101,102,105,120,45,108,105,115,116>>,  \* destination-prefix-list
    <<112,114,111,116,111,99,111,108>>,  \* protocol
    <<112,114,101,102,105,120,45,108,105,115,116>>,  \* prefix-list
    <<112,114,101,102,105,120,45,108,105,115,116,45,102,105,108,116,101,114>>,  \* prefix-list-filter
    <<114,111,117,116,101,45,102,105,108,116,101,114>>,  \* route-filter
    <<99,111,109,109,117,110,105,116,121,45,99,111,117,110,116>>,  \* community-count
    <<97,115,45,112,97,116,104,45,103,114,111,117,112>>,  \* as-path-group
    <<114,105,98,45,103,114,111,117,112>>,  \* rib-group
    <<114,105,98>>,  \* rib
    <<115,116,97,116,105,99>>,  \* static
    <<114,111,117,116,101>>,  \* route
    <<113,117,97,108,105,102,105,101,100,45,110,101,120,116,45,104,111,112>>,  \* qualified-next-hop
    <<112,114,101,102,101,114,101,110,99,101>>,  \* preference
    <<116,97,103>>,  \* tag
    <<110,111,45,114,101,97,100,118,101,114,116,105,115,101>>,  \* no-readvertise
    <<114,101,116,97,105,110>>,  \* retain
    <<110,111,45,114,101,116,97,105,110>>,  \* no-retain
    <<100,105,115,99,97,114,100>>,  \* discard
    <<114,101,106,101,99,116>>,  \* reject
    <<114,101,99,101,105,118,101>>,  \* receive
    <<97,103,103,114,101,103,97,116,101>>,  \* aggregate
    <<103,101,110,101,114,97,116,101>>,  \* generate
    <<109,97,114,116,105,97,110,115>>,  \* martians
    <<114,111,117,116,101,114,45,105,100>>,  \* router-id
    <<97,117,116,111,110,111,109,111,117,115,45,115,121,115,116,101,109>>,  \* autonomous-system
    <<99,111,110,102,101,100,101,114,97,116,105,111,110>>,  \* confederation
    <<105,110,115,116,97,110,99,101,45,116,121,112,101>>,  \* instance-type
    <<105,110,116,101,114,102,97,99,101,45,114,111,117,116,101,115>>,  \* interface-routes
    <<97,114,101,97>>,  \* area
    <<105,110,116,101,114,102,97,99,101>>,  \* interface
    <<110,101,105,103,104,98,111,114>>,  \* neighbor
    <<103,114,111,117,112>>,  \* group
    <<116,121,112,101>>,  \* type
    <<112,101,101,114,45,97,115>>,  \* peer-as
    <<108,111,99,97,108,45,97,115>>,  \* local-as
    <<105,109,112,111,114,116>>,  \* import
    <<101,120,112,111,114,116>>,  \* export
    <<108,111,99,97,108,45,97,100,100,114,101,115,115>>,  \* local-address
    <<97,117,116,104,101,110,116,105,99,97,116,105,111,110,45,107,101,121>>,  \* authentication-key
    <<97,117,116,104,101,110,116,105,99,97,116,105,111,110,45,116,121,112,101>>,  \* authentication-type
    <<98,102,100,45,108,105,118,101,110,101,115,115,45,100,101,116,101,99,116,105,111,110>>,  \* bfd-liveness-detection
    <<109,105,110,105,109,117,109,45,105,110,116,101,114,118,97,108>>,  \* minimum-interval
    <<109,117,108,116,105,112,108,105,101,114>>,  \* multiplier
    <<104,111,108,100,45,116,105,109,101>>,  \* hold-time
    <<100,97,109,112,105,110,103>>,  \* damping
    <<109,117,108,116,105,104,111,112>>,  \* multihop
    <<110,111,45,99,108,105,101,110,116,45,114,101,102,108,101,99,116>>,  \* no-client-reflect
    <<99,108,117,115,116,101,114>>,  \* cluster
    <<114,101,109,111,118,101,45,112,114,105,118,97,116,101>>,  \* remove-private
    <<100,101,102,97,117,108,116,45,109,101,116,114,105,99>>,  \* default-metric
    <<114,101,102,101,114,101,110,99,101,45,98,97,110,100,119,105,100,116,104>>,  \* reference-bandwidth
    <<116,114,97,102,102,105,99,45,101,110,103,105,110,101,101,114,105,110,103>>,  \* traffic-engineering
    <<115,104,111,114,116,99,117,116,115>>,  \* shortcuts
    <<110,111,45,110,115,115,97,45,97,98,114>>,  \* no-nssa-abr
    <<115,116,117,98>>,  \* stub
    <<110,115,115,97>>,  \* nssa
    <<100,101,102,97,117,108,116,45,108,115,97>>,  \* default-lsa
    <<115,117,109,109,97,114,105,101,115>>,  \* summaries
    <<118,105,114,116,117,97,108,45,108,105,110,107>>,  \* virtual-link
    <<116,114,97,110,115,105,116,45,97,114,101,97>>,  \* transit-area
    <<108,97,98,101,108,45,115,119,105,116,99,104,101,100,45,112,97,116,104>>,  \* label-switched-path
    <<112,97,116,104>>,  \* path
    <<112,114,105,109,97,114,121>>,  \* primary
    <<115,101,99,111,110,100,97,114,121>>,  \* secondary
    <<115,116,97,110,100,98,121>>,  \* standby
    <<98,97,110,100,119,105,100,116,104>>,  \* bandwidth
    <<112,114,105,111,114,105,116,121>>,  \* priority
    <<104,111,112,45,108,105,109,105,116>>,  \* hop-limit
    <<114,101,99,111,114,100>>,  \* record
    <<99,115,112,102>>,  \* cspf
    <<110,111,100,101,45,108,105,110,107,45,112,114,111,116,101,99,116,105,111,110>>,  \* node-link-protection
    <<102,97,115,116,45,114,101,114,111,117,116,101>>,  \* fast-reroute
    <<100,101,116,111,117,114>>,  \* detour
    <<97,100,109,105,110,45,103,114,111,117,112>>,  \* admin-group
    <<105,110,99,108,117,100,101>>,  \* include
    <<105,110,99,108,117,100,101,45,97,110,121>>,  \* include-any
    <<101,120,99,108,117,100,101>>,  \* exclude
    <<111,112,116,105,109,105,122,101,45,116,105,109,101,114>>,  \* optimize-timer
    <<114,101,118,101,114,116,45,116,105,109,101,114>>,  \* revert-timer
    <<115,105,103,110,97,108,101,100,45,98,97,110,100,119,105,100,116,104>>,  \* signaled-bandwidth
    <<122,111,110,101>>,  \* zone
    <<115,101,99,117,114,105,116,121,45,122,111,110,101>>,  \* security-zone
    <<97,100,100,114,101,115,115,45,98,111,111,107>>,  \* address-book
    <<104,111,115,116,45,105,110,98,111,117,110,100,45,116,114,97,102,102,105,99>>,  \* host-inbound-traffic
    <<115,121,115,116,101,109,45,115,101,114,118,105,99,101,115>>,  \* system-services
    <<112,111,108,105,99,105,101,115>>,  \* policies
    <<112,111,108,105,99,121>>,  \* policy
    <<109,97,116,99,104>>,  \* match
    <<97,112,112,108,105,99,97,116,105,111,110>>,  \* application
    <<115,111,117,114,99,101,45,122,111,110,101>>,  \* source-zone
    <<100,101,115,116,105,110,97,116,105,111,110,45,122,111,110,101>>,  \* destination-zone
    <<110,97,116>>,  \* nat
    <<115,111,117,114,99,101>>,  \* source
    <<100,101,115,116,105,110,97,116,105,111,110>>,  \* destination
    <<112,111,111,108>>,  \* pool
    <<114,117,108,101,45,115,101,116>>,  \* rule-set
    <<114,117,108,101>>,  \* rule
    <<116,114,97,110,115,108,97,116,105,111,110,45,116,121,112,101>>,  \* translation-type
    <<116,114,97,110,115,108,97,116,101,100>>,  \* translated
    <<115,99,114,101,101,110>>,  \* screen
    <<105,100,115,45,111,112,116,105,111,110>>,  \* ids-option
    <<105,99,109,112>>,  \* icmp
    <<105,112>>,  \* ip
    <<116,99,112,45,114,115,116>>,  \* tcp-rst
    <<115,101,115,115,105,111,110,45,99,108,111,115,101>>,  \* session-close
    <<97,108,97,114,109,45,116,104,114,101,115,104,111,108,100>>,  \* alarm-threshold
    <<102,108,111,119>>,  \* flow
    <<116,99,112,45,115,101,115,115,105,111,110>>,  \* tcp-session
    <<116,99,112,45,109,115,115>>,  \* tcp-mss
    <<97,108,108,111,119,45,100,110,115,45,114,101,112,108,121>>,  \* allow-dns-reply
    <<97,108,108,111,119,45,101,109,98,101,100,100,101,100,45,105,99,109,112>>,  \* allow-embedded-icmp
    <<105,107,101>>,  \* ike
    <<103,97,116,101,119,97,121>>,  \* gateway
    <<112,114,111,112,111,115,97,108>>,  \* proposal
    <<105,112,115,101,99>>,  \* ipsec
    <<118,112,110>>,  \* vpn
    <<116,117,110,110,101,108>>,  \* tunnel
    <<101,115,116,97,98,108,105,115,104,45,116,117,110,110,101,108,115>>,  \* establish-tunnels
    <<105,109,109,101,100,105,97,116,101,108,121>>,  \* immediately
    <<111,110,45,116,114,97,102,102,105,99>>,  \* on-traffic
    <<114,101,115,112,111,110,100,101,114,45,111,110,108,121>>,  \* responder-only
    <<98,105,110,100,45,105,110,116,101,114,102,97,99,101>>,  \* bind-interface
    <<105,107,101,45,112,111,108,105,99,121>>,  \* ike-policy
    <<105,112,115,101,99,45,112,111,108,105,99,121>>,  \* ipsec-policy
    <<112,114,101,45,115,104,97,114,101,100,45,107,101,121>>,  \* pre-shared-key
    <<97,115,99,105,105,45,116,101,120,116>>,  \* ascii-text
    <<99,101,114,116,105,102,105,99,97,116,101>>,  \* certificate
    <<108,111,99,97,108,45,105,100,101,110,116,105,116,121>>,  \* local-identity
    <<114,101,109,111,116,101,45,105,100,101,110,116,105,116,121>>,  \* remote-identity
    <<100,101,97,100,45,112,101,101,114,45,100,101,116,101,99,116,105,111,110>>,  \* dead-peer-detection
    <<105,110,116,101,114,118,97,108>>,  \* interval
    <<116,104,114,101,115,104,111,108,100>>,  \* threshold
    <<103,101,110,101,114,97,108,45,105,107,101,105,100>>,  \* general-ikeid
    <<110,111,45,97,110,116,105,45,114,101,112,108,97,121>>,  \* no-anti-replay
    <<116,114,97,112,45,103,114,111,117,112>>,  \* trap-group
    <<116,114,97,112,45,111,112,116,105,111,110,115>>,  \* trap-options
    <<99,97,116,101,103,111,114,105,101,115>>,  \* categories
    <<116,97,114,103,101,116,115>>,  \* targets
    <<99,111,109,109,117,110,105,116,121,45,110,97,109,101>>,  \* community-name
    <<97,117,116,104,111,114,105,122,97,116,105,111,110>>,  \* authorization
    <<114,101,97,100,45,111,110,108,121>>,  \* read-only
    <<114,101,97,100,45,119,114,105,116,101>>,  \* read-write
    <<118,105,101,119>>,  \* view
    <<99,108,105,101,110,116,45,108,105,115,116>>,  \* client-list
    <<105,110,116,101,114,102,97,99,101,45,108,105,115,116>>,  \* interface-list
    <<108,111,99,97,116,105,111,110>>,  \* location
    <<99,111,110,116,97,99,116>>,  \* contact
    <<99,111,109,109,117,110,105,116,121>>,  \* community
    <<115,116,111,114,109,45,99,111,110,116,114,111,108,45,112,114,111,102,105,108,101,115>>,  \* storm-control-profiles
    <<115,116,111,114,109,45,99,111,110,116,114,111,108>>,  \* storm-control
    <<97,110,97,108,121,122,101,114>>,  \* analyzer
    <<112,111,114,116,45,109,105,114,114,111,114,105,110,103>>,  \* port-mirroring
    <<104,101,108,112,101,114,115>>,  \* helpers
    <<105,112,45,118,101,114,115,105,111,110>>,  \* ip-version
    <<105,112,45,112,114,111,116,111,99,111,108>>,  \* ip-protocol
    <<105,112,118,52>>,  \* ipv4
    <<105,112,118,54>>,  \* ipv6
    <<105,112,45,100,101,115,116,105,110,97,116,105,111,110,45,97,100,100,114,101,115,115>>,  \* ip-destination-address
    <<105,112,45,115,111,117,114,99,101,45,97,100,100,114,101,115,115>>,  \* ip-source-address
    <<105,112,54,45,100,101,115,116,105,110,97,116,105,111,110,45,97,100,100,114,101,115,115>>,  \* ip6-destination-address
    <<105,112,54,45,115,111,117,114,99,101,45,97,100,100,114,101,115,115>>,  \* ip6-source-address
    <<114,111,117,116,101,114,45,97,100,118,101,114,116,105,115,101,109,101,110,116>>,  \* router-advertisement
    <<114,111,117,116,101,114,45,115,111,108,105,99,105,116,97,116,105,111,110>>,  \* router-solicitation
    <<110,101,105,103,104,98,111,114,45,97,100,118,101,114,116,105,115,101,109,101,110,116>>,  \* neighbor-advertisement
    <<110,101,105,103,104,98,111,114,45,115,111,108,105,99,105,116,97,116,105,111,110>>,  \* neighbor-solicitation
    <<100,104,99,112,118,54,45,99,108,105,101,110,116>>,  \* dhcpv6-client
    <<100,104,99,112,45,99,108,105,101,110,116>>,  \* dhcp-client
    <<99,108,105,101,110,116,45,116,121,112,101>>,  \* client-type
    <<99,108,105,101,110,116,45,105,97,45,116,121,112,101>>,  \* client-ia-type
    <<105,97,45,110,97>>,  \* ia-na
    <<105,97,45,112,100>>,  \* ia-pd
    <<114,97,112,105,100,45,99,111,109,109,105,116>>,  \* rapid-commit
    <<99,108,105,101,110,116,45,105,100,101,110,116,105,102,105,101,114>>,  \* client-identifier
    <<100,117,105,100,45,116,121,112,101>>,  \* duid-type
    <<100,117,105,100,45,108,108,116>>,  \* duid-llt
    <<100,117,105,100,45,108,108>>,  \* duid-ll
    <<115,116,97,116,101,102,117,108>>,  \* stateful
    <<115,116,97,116,101,108,101,115,115>>,  \* stateless
    <<100,101,102,97,117,108,116>>,  \* default
    <<105,110,97,99,116,105,118,101,58>>,  \* inactive:
    <<118,110,105>>,  \* vni
    <<118,116,101,112,45,115,111,117,114,99,101,45,105,110,116,101,114,102,97,99,101>>,  \* vtep-source-interface
    <<101,120,116,101,110,100,101,100,45,118,110,105,45,108,105,115,116>>,  \* extended-vni-list
    <<101,110,99,97,112,115,117,108,97,116,105,111,110>>,  \* encapsulation
    <<109,117,108,116,105,99,97,115,116,45,109,111,100,101>>,  \* multicast-mode
    <<105,110,103,114,101,115,115,45,114,101,112,108,105,99,97,116,105,111,110>>,  \* ingress-replication
    <<114,111,117,116,101,45,100,105,115,116,105,110,103,117,105,115,104,101,114>>,  \* route-distinguisher
    <<118,114,102,45,116,97,114,103,101,116>>,  \* vrf-target
    <<118,114,102,45,105,109,112,111,114,116>>,  \* vrf-import
    <<118,114,102,45,101,120,112,111,114,116>>,  \* vrf-export
    <<118,114,102,45,116,97,98,108,101,45,108,97,98,101,108>>,  \* vrf-table-label
    <<97,117,116,111,45,101,120,112,111,114,116>>,  \* auto-export
    <<97,117,116,111,45,114,116>>,  \* auto-rt
    <<101,116,104,101,114,110,101,116,45,115,101,103,109,101,110,116>>,  \* ethernet-segment
    <<101,115,105>>,  \* esi
    <<97,108,108,45,97,99,116,105,118,101>>,  \* all-active
    <<115,105,110,103,108,101,45,97,99,116,105,118,101>>,  \* single-active
    <<100,101,115,105,103,110,97,116,101,100,45,102,111,114,119,97,114,100,101,114,45,101,108,101,99,116,105,111,110>>,  \* designated-forwarder-election
    <<100,102,45,101,108,101,99,116,105,111,110,45,116,121,112,101>>,  \* df-election-type
    <<114,101,99,111,118,101,114,121,45,116,105,109,101,114>>,  \* recovery-timer
    <<100,101,102,97,117,108,116,45,103,97,116,101,119,97,121>>,  \* default-gateway
    <<97,100,118,101,114,116,105,115,101,45,100,101,102,97,117,108,116,45,103,97,116,101,119,97,121>>,  \* advertise-default-gateway
    <<110,111,45,97,114,112,45,115,117,112,112,114,101,115,115,105,111,110>>,  \* no-arp-suppression
    <<112,114,111,120,121,45,97,114,112>>,  \* proxy-arp
    <<112,114,111,120,121,45,110,100>>,  \* proxy-nd
    <<118,105,114,116,117,97,108,45,114,111,117,116,101,114>>,  \* virtual-router
    <<118,114,102>>,  \* vrf
    <<108,97,121,101,114,50,45,99,111,110,116,114,111,108>>,  \* layer2-control
    <<105,110,116,101,114,99,111,110,110,101,99,116>>,  \* interconnect
    <<110,111,45,118,114,102,45,112,114,111,112,97,103,97,116,101,45,116,116,108>>,  \* no-vrf-propagate-ttl
    <<105,99,99,112>>,  \* iccp
    <<112,101,101,114>>,  \* peer
    <<108,105,118,101,110,101,115,115,45,100,101,116,101,99,116,105,111,110>>,  \* liveness-detection
    <<114,101,100,117,110,100,97,110,99,121,45,103,114,111,117,112>>,  \* redundancy-group
    <<112,114,101,101,109,112,116>>,  \* preempt
    <<110,111,100,101,45,115,101,103,109,101,110,116>>,  \* node-segment
    <<105,110,100,101,120,45,114,97,110,103,101>>,  \* index-range
    <<115,114,103,98>>,  \* srgb
    <<115,114,108,98>>,  \* srlb
    <<115,105,100>>,  \* sid
    <<112,114,101,102,105,120,45,115,101,103,109,101,110,116>>,  \* prefix-segment
    <<97,100,106,97,99,101,110,99,121,45,115,101,103,109,101,110,116>>,  \* adjacency-segment
    <<98,105,110,100,105,110,103,45,115,101,103,109,101,110,116>>,  \* binding-segment
    <<116,105,108,102,97>>,  \* tilfa
    <<116,105,45,108,102,97>>,  \* ti-lfa
    <<112,111,115,116,45,99,111,110,118,101,114,103,101,110,99,101,45,108,102,97>>,  \* post-convergence-lfa
    <<98,97,99,107,117,112,45,115,101,108,101,99,116,105,111,110>>,  \* backup-selection
    <<115,101,103,109,101,110,116,45,108,105,115,116>>,  \* segment-list
    <<99,111,109,112,117,116,101>>,  \* compute
    <<101,120,112,108,105,99,105,116>>,  \* explicit
    <<115,114,45,116,101,45,116,101,109,112,108,97,116,101>>,  \* sr-te-template
    <<108,115,112,45,101,120,116,101,114,110,97,108,45,99,111,110,116,114,111,108,108,101,114>>,  \* lsp-external-controller
    <<112,99,101,45,99,111,110,116,114,111,108,108,101,100>>,  \* pce-controlled
    <<100,101,108,101,103,97,116,101>>,  \* delegate
    <<114,101,112,111,114,116>>,  \* report
    <<115,116,97,116,101,102,117,108,45,112,99,101>>,  \* stateful-pce
    <<112,99,101,45,112,101,101,114>>,  \* pce-peer
    <<100,101,115,116,105,110,97,116,105,111,110,45,112,114,101,102,105,120>>,  \* destination-prefix
    <<108,111,99,97,116,111,114>>,  \* locator
    <<101,110,100,45,115,105,100>>,  \* end-sid
    <<101,110,100,45,120,45,115,105,100>>,  \* end-x-sid
    <<101,110,100,45,100,116>>,  \* end-dt
    <<115,111,117,114,99,101,45,114,111,117,116,105,110,103,45,104,101,97,100,101,114>>,  \* source-routing-header
    <<101,110,99,97,112,115,117,108,97,116,105,111,110,45,109,111,100,101>>,  \* encapsulation-mode
    <<100,101,109,117,120,45,115,111,117,114,99,101>>,  \* demux-source
    <<117,110,100,101,114,108,121,105,110,103,45,105,110,116,101,114,102,97,99,101>>,  \* underlying-interface
    <<99,108,105,101,110,116,45,112,114,111,102,105,108,101>>,  \* client-profile
    <<115,101,114,118,101,114,45,112,114,111,102,105,108,101>>,  \* server-profile
    <<112,112,112,45,111,112,116,105,111,110,115>>,  \* ppp-options
    <<112,112,112,111,101,45,111,112,116,105,111,110,115>>,  \* pppoe-options
    <<115,101,114,118,105,99,101,45,110,97,109,101,45,116,97,98,108,101>>,  \* service-name-table
    <<109,97,120,45,115,101,115,115,105,111,110,115>>,  \* max-sessions
    <<115,101,115,115,105,111,110,45,108,105,109,105,116>>,  \* session-limit
    <<115,101,114,118,105,99,101,45,112,114,111,102,105,108,101>>,  \* service-profile
    <<97,117,116,104,101,110,116,105,99,97,116,105,111,110,45,111,114,100,101,114>>,  \* authentication-order
    <<97,99,99,111,117,110,116,105,110,103>>,  \* accounting
    <<114,97,100,105,117,115,45,115,101,114,118,101,114>>,  \* radius-server
    <<116,97,99,112,108,117,115,45,115,101,114,118,101,114>>,  \* tacplus-server
    <<115,101,99,114,101,116>>,  \* secret
    <<116,105,109,101,111,117,116>>,  \* timeout
    <<114,101,116,114,121>>,  \* retry
    <<110,101,116,119,111,114,107>>,  \* network
    <<114,97,110,103,101>>,  \* range
    <<108,111,119>>,  \* low
    <<104,105,103,104>>,  \* high
    <<100,104,99,112,45,97,116,116,114,105,98,117,116,101,115>>,  \* dhcp-attributes
    <<111,112,116,105,111,110>>,  \* option
    <<111,112,116,105,111,110,45,56,50>>,  \* option-82
    <<114,101,108,97,121,45,111,112,116,105,111,110>>,  \* relay-option
    <<114,101,108,97,121,45,97,103,101,110,116,45,105,110,102,111,114,109,97,116,105,111,110>>,  \* relay-agent-information
    <<115,117,98,115,99,114,105,98,101,114,45,105,100>>,  \* subscriber-id
    <<97,103,101,110,116,45,99,105,114,99,117,105,116,45,105,100>>,  \* agent-circuit-id
    <<97,103,101,110,116,45,114,101,109,111,116,101,45,105,100>>,  \* agent-remote-id
    <<108,110,115>>,  \* lns
    <<108,97,99>>,  \* lac
    <<108,50,116,112,45,97,99,99,101,115,115,45,112,114,111,102,105,108,101>>,  \* l2tp-access-profile
    <<114,101,99,101,105,118,101,45,119,105,110,100,111,119>>,  \* receive-window
    <<114,101,116,114,97,110,115,109,105,116,45,105,110,116,101,114,118,97,108>>,  \* retransmit-interval
    <<109,97,120,105,109,117,109,45,114,101,99,101,105,118,101,45,119,105,110,100,111,119>>,  \* maximum-receive-window
    <<116,117,110,110,101,108,45,103,114,111,117,112>>,  \* tunnel-group
    <<116,114,97,102,102,105,99,45,99,111,110,116,114,111,108>>,  \* traffic-control
    <<116,114,97,102,102,105,99,45,99,111,110,116,114,111,108,45,112,114,111,102,105,108,101>>,  \* traffic-control-profile
    <<115,99,104,101,100,117,108,101,114,45,109,97,112>>,  \* scheduler-map
    <<115,104,97,112,105,110,103,45,114,97,116,101>>,  \* shaping-rate
    <<103,117,97,114,97,110,116,101,101,100,45,114,97,116,101>>,  \* guaranteed-rate
    <<115,101,110,115,111,114>>,  \* sensor
    <<115,101,110,115,111,114,45,110,97,109,101>>,  \* sensor-name
    <<114,101,115,111,117,114,99,101>>,  \* resource
    <<114,101,112,111,114,116,105,110,103,45,114,97,116,101>>,  \* reporting-rate
    <<112,111,108,108,105,110,103,45,105,110,116,101,114,118,97,108>>,  \* polling-interval
    <<99,104,97,110,103,101,45,117,112,100,97,116,101>>,  \* change-update
    <<111,110,45,99,104,97,110,103,101>>,  \* on-change
    <<116,97,114,103,101,116,45,100,101,102,105,110,101,100>>,  \* target-defined
    <<101,120,112,111,114,116,45,112,114,111,102,105,108,101>>,  \* export-profile
    <<108,111,99,97,108,45,112,111,114,116>>,  \* local-port
    <<114,101,109,111,116,101,45,97,100,100,114,101,115,115>>,  \* remote-address
    <<114,101,109,111,116,101,45,112,111,114,116>>,  \* remote-port
    <<116,114,97,110,115,112,111,114,116>>,  \* transport
    <<101,110,99,111,100,105,110,103>>,  \* encoding
    <<115,117,98,115,99,114,105,112,116,105,111,110>>,  \* subscription
    <<120,112,97,116,104>>,  \* xpath
    <<115,101,110,115,111,114,45,98,97,115,101,100,45,115,116,97,116,115>>,  \* sensor-based-stats
    <<102,105,108,101>>,  \* file
    <<99,111,109,109,105,116,45,115,99,114,105,112,116>>,  \* commit-script
    <<111,112,45,115,99,114,105,112,116>>,  \* op-script
    <<101,118,101,110,116,45,115,99,114,105,112,116>>,  \* event-script
    <<115,108,97,120>>,  \* slax
    <<112,121,116,104,111,110>>,  \* python
    <<97,108,108,111,119,45,99,111,109,109,97,110,100,115>>,  \* allow-commands
    <<100,101,110,121,45,99,111,109,109,97,110,100,115>>,  \* deny-commands
    <<101,120,116,101,110,115,105,111,110,45,115,101,114,118,105,99,101>>,  \* extension-service
    <<114,101,113,117,101,115,116,45,114,101,115,112,111,110,115,101>>,  \* request-response
    <<110,111,116,105,102,105,99,97,116,105,111,110>>  \* notification
}

\* valueKeywords (lexer.go:365-376), 10 words
valueKeywords == {
    <<100,101,115,99,114,105,112,116,105,111,110>>,  \* description
    <<104,111,115,116,45,110,97,109,101>>,  \* host-name
    <<100,111,109,97,105,110,45,110,97,109,101>>,  \* domain-name
    <<110,97,109,101,45,115,101,114,118,101,114>>,  \* name-server
    <<101,110,99,114,121,112,116,101,100,45,112,97,115,115,119,111,114,100>>,  \* encrypted-password
    <<97,117,116,104,101,110,116,105,99,97,116,105,111,110,45,107,101,121>>,  \* authentication-key
    <<112,114,101,45,115,104,97,114,101,100,45,107,101,121>>,  \* pre-shared-key
    <<97,115,99,105,105,45,116,101,120,116>>,  \* ascii-text
    <<99,111,109,109,117,110,105,116,121,45,110,97,109,101>>,  \* community-name
    <<118,101,114,115,105,111,110>>  \* version
}

\* statesGood (lexer.go:409-414), 12 words
statesGood == {
    <<117,112>>,  \* up
    <<101,115,116,97,98,108>>,  \* establ
    <<101,115,116,97,98,108,105,115,104,101,100>>,  \* established
    <<102,117,108,108>>,  \* full
    <<109,97,115,116,101,114>>,  \* master
    <<112,114,105,109,97,114,121>>,  \* primary
    <<101,110,97,98,108,101,100>>,  \* enabled
    <<111,107>>,  \* ok
    <<111,110,108,105,110,101>>,  \* online
    <<114,117,110,110,105,110,103>>,  \* running
    <<114,101,97,100,121>>,  \* ready
    <<99,111,109,112,108,101,116,101>>  \* complete
}

\* statesBad (lexer.go:416-423), 12 words
statesBad == {
    <<100,111,119,110>>,  \* down
    <<105,100,108,101>>,  \* idle
    <<102,97,105,108,101,100>>,  \* failed
    <<101,114,114,111,114>>,  \* error
    <<111,102,102,108,105,110,101>>,  \* offline
    <<100,105,115,97,98,108,101,100>>,  \* disabled
    <<117,110,114,101,97,99,104,97,98,108,101>>,  \* unreachable
    <<116,105,109,101,111,117,116>>,  \* timeout
    <<97,99,116,105,118,101>>,  \* active
    <<99,111,110,110,101,99,116>>,  \* connect
    <<111,112,101,110,115,101,110,116>>,  \* opensent
    <<111,112,101,110,99,111,110,102,105,114,109>>  \* openconfirm
}

\* statesWarning (lexer.go:425-432), 10 words
statesWarning == {
    <<105,110,105,116>>,  \* init
    <<50,119,97,121>>,  \* 2way
    <<101,120,115,116,97,114,116>>,  \* exstart
    <<101,120,99,104,97,110,103,101>>,  \* exchange
    <<108,111,97,100,105,110,103>>,  \* loading
    <<102,108,97,112,112,105,110,103>>,  \* flapping
    <<112,101,110,100,105,110,103>>,  \* pending
    <<119,97,105,116,105,110,103>>,  \* waiting
    <<115,116,97,114,116,105,110,103>>,  \* starting
    <<115,116,111,112,112,105,110,103>>  \* stopping
}

\* statesNeutral (lexer.go:434-437), 5 words
statesNeutral == {
    <<105,110,97,99,116,105,118,101>>,  \* inactive
    <<115,116,97,110,100,98,121>>,  \* standby
    <<98,97,99,107,117,112>>,  \* backup
    <<110,47,97>>,  \* n/a
    <<110,111,110,101>>  \* none
}

\* columnHeaders (lexer.go:439-450), 30 words
columnHeaders == {
    <<110,101,105,103,104,98,111,114>>,  \* neighbor
    <<112,101,101,114>>,  \* peer
    <<115,116,97,116,101>>,  \* state
    <<105,110,116,101,114,102,97,99,101>>,  \* interface
    <<97,100,109,105,110>>,  \* admin
    <<108,105,110,107>>,  \* link
    <<112,114,111,116,111>>,  \* proto
    <<108,111,99,97,108>>,  \* local
    <<114,101,109,111,116,101>>,  \* remote
    <<97,115>>,  \* as
    <<105,110,112,107,116>>,  \* inpkt
    <<111,117,116,112,107,116>>,  \* outpkt
    <<102,108,97,112,115>>,  \* flaps
    <<117,112,116,105,109,101>>,  \* uptime
    <<117,112,47,100,110>>,  \* up/dn
    <<109,116,117>>,  \* mtu
    <<115,112,101,101,100>>,  \* speed
    <<116,121,112,101>>,  \* type
    <<97,114,101,97>>,  \* area
    <<100,114>>,  \* dr
    <<98,100,114>>,  \* bdr
    <<109,101,116,114,105,99>>,  \* metric
    <<108,111,99,97,108,112,114,101,102>>,  \* localpref
    <<109,101,100>>,  \* med
    <<110,101,120,116,104,111,112>>,  \* nexthop
    <<103,97,116,101,119,97,121>>,  \* gateway
    <<102,108,97,103,115>>,  \* flags
    <<111,117,116,113>>,  \* outq
    <<112,114,101,102,105,120,101,115>>,  \* prefixes
    <<112,97,116,104,115>>  \* paths
}

\* statusSymbols (lexer.go:452-456), 10 words
statusSymbols == {
    <<42>>,  \* *
    <<43>>,  \* +
    <<45>>,  \* -
    <<62>>,  \* >
    <<66>>,  \* B
    <<79>>,  \* O
    <<73>>,  \* I
    <<83>>,  \* S
    <<76>>,  \* L
    <<68>>  \* D
}

(***************************************************************************)
(* Regular expressions of the lexer (lexer.go:397-471), each written as    *)
(* the predicate its anchored pattern decides.  Go's \d is [0-9], \w is    *)
(* [0-9A-Za-z_], \s is [\t\n\f\r ], and $ is the end of the text.          *)
(***************************************************************************)
IsDigit(b) == b >= 48 /\ b <= 57

IsHexDigit(b) == IsDigit(b) \/ (b >= 65 /\ b <= 70) \/ (b >= 97 /\ b <= 102)

IsWordByte(b) == IsDigit(b) \/ (b >= 65 /\ b <= 90) \/ (b >= 97 /\ b <= 122) \/ b = 95

IsReSpace(b) == b \in {chTab, chLF, chFF, chCR, chSpace}

AllDigits(s) == \A i \in 1..Len(s) : IsDigit(s[i])

\* \d+
DigitsPlus(s) == Len(s) >= 1 /\ AllDigits(s)

\* \d{lo,hi}
DigitsN(s, lo, hi) == Len(s) >= lo /\ Len(s) <= hi /\ AllDigits(s)

RECURSIVE SplitBy(_, _)
\* the fields of s between the occurrences of byte d
SplitBy(s, d) ==
    LET k == IndexByte(s, d)
    IN  IF k = -1 THEN <<s>>
        ELSE <<Slice(s, 0, k)>> \o SplitBy(Slice(s, k + 1, Len(s)), d)

\* \d+(\.\d+)?
Decimal(s) ==
    LET f == SplitBy(s, 46)
    IN  Len(f) \in {1, 2} /\ \A i \in 1..Len(f) : DigitsPlus(f[i])

\* ^(\d{1,3}\.){3}\d{1,3}$
ipv4Pattern(w) ==
    LET f == SplitBy(w, 46)
    IN  Len(f) = 4 /\ \A i \in 1..4 : DigitsN(f[i], 1, 3)

\* ^(\d{1,3}\.){3}\d{1,3}/\d{1,2}$
ipv4PrefixPattern(w) ==
    LET f == SplitBy(w, 47)
    IN  Len(f) = 2 /\ ipv4Pattern(f[1]) /\ DigitsN(f[2], 1, 2)

\* ^[0-9a-fA-F:]+:[0-9a-fA-F:]*$
ipv6Pattern(w) ==
    /\ \A i \in 1..Len(w) : IsHexDigit(w[i]) \/ w[i] = 58
    /\ \E i \in 2..Len(w) : w[i] = 58

\* ^[0-9a-fA-F:]+:[0-9a-fA-F:]*/\d{1,3}$
ipv6PrefixPattern(w) ==
    LET f == SplitBy(w, 47)
    IN  Len(f) = 2 /\ ipv6Pattern(f[1]) /\ DigitsN(f[2], 1, 3)

\* ^([0-9a-fA-F]{2}:){5}[0-9a-fA-F]{2}(/\d{1,2})?$
macPattern(w) ==
    LET f == SplitBy(w, 47)
        g == SplitBy(f[1], 58)
    IN  /\ Len(f) \in {1, 2}
        /\ Len(g) = 6
        /\ \A i \in 1..6 : Len(g[i]) = 2 /\ IsHexDigit(g[i][1]) /\ IsHexDigit(g[i][2])
        /\ (Len(f) = 2 => DigitsN(f[2], 1, 2))

\* ^\d+[gmkGMK]?$
numberPattern(w) ==
    \/ DigitsPlus(w)
    \/ /\ Len(w) >= 2
       /\ w[Len(w)] \in {103, 109, 107, 71, 77, 75}
       /\ DigitsPlus(SubSeq(w, 1, Len(w) - 1))

\* ^\d+:\d+$
communityPattern(w) ==
    LET f == SplitBy(w, 58)
    IN  Len(f) = 2 /\ DigitsPlus(f[1]) /\ DigitsPlus(f[2])

\* ^[Aa][Ss]\d+$
asnPattern(w) ==
    /\ Len(w) >= 3
    /\ w[1] \in {65, 97}
    /\ w[2] \in {83, 115}
    /\ AllDigits(SubSeq(w, 3, Len(w)))

\* ^\d+$
unitNumberPattern(w) == DigitsPlus(w)

\* the interface prefixes that take -fpc/pic/port
ifSlotPrefixes == {
    <<103,101>>, <<120,101>>,          \* [gx]e
    <<101,116>>, <<115,111>>, <<102,101>>, <<97,116>>,   \* et so fe at
    <<116,49>>, <<116,51>>, <<101,49>>, <<101,51>>,      \* t1 t3 e1 e3
    <<109,103,101>>, <<118,99,112>>, <<115,105>>,        \* mge vcp si
    <<108,115,113>>, <<114,108,115,113>>                 \* lsq rlsq
}

\* the interface prefixes that take an optional number
ifNumPrefixes == {
    <<97,101>>, <<114,101,116,104>>, <<108,111>>, <<101,109>>, <<109,101>>,  \* ae reth lo em me
    <<105,114,98>>, <<118,108,97,110>>, <<102,97,98>>, <<103,114>>,          \* irb vlan fab gr
    <<105,112>>, <<118,116>>, <<108,116>>, <<109,115>>, <<115,112>>,         \* ip vt lt ms sp
    <<112,112>>, <<112,100>>, <<112,101>>, <<100,101,109,117,120>>,          \* pp pd pe demux
    <<100,115,99>>, <<109,116,117,110>>, <<112,105,109,100>>,                \* dsc mtun pimd
    <<112,105,109,101>>, <<116,97,112>>, <<108,115,105>>, <<115,116>>,       \* pime tap lsi st
    <<118,116,101,112>>, <<102,116,105>>, <<106,115,114,118>>,               \* vtep fti jsrv
    <<103,114,101>>, <<105,112,105,112>>                                     \* gre ipip
}

\* \d+(:\d+)?(\.\d+)?
PortChannelUnit(s) ==
    LET f == SplitBy(s, 46)
        g == SplitBy(f[1], 58)
    IN  /\ Len(f) \in {1, 2}
        /\ (Len(f) = 2 => DigitsPlus(f[2]))
        /\ Len(g) \in {1, 2}
        /\ \A i \in 1..Len(g) : DigitsPlus(g[i])

\* \d*(\.\d+)?
OptNumberUnit(s) ==
    LET f == SplitBy(s, 46)
    IN  /\ Len(f) \in {1, 2}
        /\ AllDigits(f[1])
        /\ (Len(f) = 2 => DigitsPlus(f[2]))

\* the five alternatives of interfacePattern
interfacePattern(w) ==
    \/ LET k == IndexByte(w, 45)
           f == SplitBy(Slice(w, k + 1, Len(w)), 47)
       IN  /\ k >= 0
           /\ Slice(w, 0, k) \in ifSlotPrefixes
           /\ Len(f) = 3
           /\ DigitsPlus(f[1]) /\ DigitsPlus(f[2]) /\ PortChannelUnit(f[3])
    \/ \E k \in 2..Len(w) :
           SubSeq(w, 1, k) \in ifNumPrefixes /\ OptNumberUnit(SubSeq(w, k + 1, Len(w)))
    \/ /\ Len(w) >= 4
       /\ w[1] \in {101, 102, 109} /\ w[2] = 120 /\ w[3] = 112
       /\ Decimal(SubSeq(w, 4, Len(w)))
    \/ w = <<118,109,101>>
    \/ /\ Len(w) >= 5
       /\ SubSeq(w, 1, 4) = <<118,109,101,46>>
       /\ DigitsPlus(SubSeq(w, 5, Len(w)))
    \/ w = <<97,108,108>>

RECURSIVE DurationUnits(_)
\* (\d+[wdhms])+
DurationUnits(s) ==
    LET nd == {i \in 1..Len(s) : ~IsDigit(s[i])}
        k  == CHOOSE i \in nd : \A j \in nd : i <= j
    IN  /\ nd # {}
        /\ k >= 2
        /\ s[k] \in {119, 100, 104, 109, 115}
        /\ (k = Len(s) \/ DurationUnits(SubSeq(s, k + 1, Len(s))))

\* ^(\d+[wdhms])+$|^\d+:\d{2}(:\d{2})?$
timeDurationPattern(w) ==
    \/ DurationUnits(w)
    \/ LET f == SplitBy(w, 58)
       IN  /\ Len(f) \in {2, 3}
           /\ DigitsPlus(f[1])
           /\ \A i \in 2..Len(f) : DigitsN(f[i], 2, 2)

\* ^\d+(\.\d+)?%$
percentagePattern(w) ==
    Len(w) >= 2 /\ w[Len(w)] = 37 /\ Decimal(SubSeq(w, 1, Len(w) - 1))

\* ^\d+(\.\d+)?[KMGTP][Bb]?$
byteSizePattern(w) ==
    LET body == IF Len(w) >= 1 /\ w[Len(w)] \in {66, 98}
                THEN SubSeq(w, 1, Len(w) - 1) ELSE w
    IN  /\ Len(body) >= 2
        /\ body[Len(body)] \in {75, 77, 71, 84, 80}
        /\ Decimal(SubSeq(body, 1, Len(body) - 1))

routeProtocolNames == {
    <<66,71,80>>, <<79,83,80,70>>, <<79,83,80,70,51>>, <<73,83,73,83>>,   \* BGP OSPF OSPF3 ISIS
    <<82,73,80>>, <<83,116,97,116,105,99>>, <<68,105,114,101,99,116>>,    \* RIP Static Direct
    <<76,111,99,97,108>>, <<65,103,103,114,101,103,97,116,101>>           \* Local Aggregate
}

\* ^\[(BGP|OSPF|OSPF3|ISIS|RIP|Static|Direct|Local|Aggregate)/\d+\]$
routeProtocolPattern(w) ==
    LET f == SplitBy(SubSeq(w, 2, Len(w) - 1), 47)
    IN  /\ Len(w) >= 2
        /\ w[1] = 91 /\ w[Len(w)] = 93
        /\ Len(f) = 2
        /\ f[1] \in routeProtocolNames
        /\ DigitsPlus(f[2])

tableNames == {
    <<105,110,101,116>>, <<105,110,101,116,54>>, <<109,112,108,115>>,   \* inet inet6 mpls
    <<98,103,112>>, <<105,115,111>>, <<108,50,118,112,110>>             \* bgp iso l2vpn
}

\* ^(inet|inet6|mpls|bgp|iso|l2vpn)\.\d+:?$
tableNamePattern(w) ==
    LET body == IF Len(w) >= 1 /\ w[Len(w)] = 58 THEN SubSeq(w, 1, Len(w) - 1) ELSE w
        f    == SplitBy(body, 46)
    IN  Len(f) = 2 /\ f[1] \in tableNames /\ DigitsPlus(f[2])

RECURSIVE SkipReSpace(_, _)
\* the 1-based index of the first byte at or after i that is not \s
SkipReSpace(s, i) ==
    IF i <= Len(s) /\ IsReSpace(s[i]) THEN SkipReSpace(s, i + 1) ELSE i

RECURSIVE SkipWordBytes(_, _)
\* the 1-based index of the first byte at or after i that is not \w
SkipWordBytes(s, i) ==
    IF i <= Len(s) /\ IsWordByte(s[i]) THEN SkipWordBytes(s, i + 1) ELSE i

\* \w+\s{2,}\w+\s{2,}\w+ found anywhere in s
tabularPattern(s) ==
    \E a \in 1..Len(s) :
        /\ IsWordByte(s[a])
        /\ LET b == SkipReSpace(s, a + 1)
               c == SkipWordBytes(s, b)
               d == SkipReSpace(s, c)
           IN  /\ b >= a + 3 /\ b <= Len(s) /\ IsWordByte(s[b])
               /\ d >= c + 2 /\ d <= Len(s) /\ IsWordByte(s[d])


\* promptPattern (lexer.go:471):
\*   ^(\{[^}]+\})?(\[edit[^\]]*\])?([\s\x00-\x1f]*)([\w-]+)@([\w.-]+)([>#])(\s*)(.*?)\n?$
\* Every choice of the pattern is forced: an optional group that can match
\* must match (the byte it starts with fits nothing after it), and each
\* greedy run is followed by a byte outside its class.  PromptMatch returns
\* the eight groups of the leftmost-first match.
RECURSIVE IndexFrom(_, _, _)
\* the first 0-based index at or after i whose byte is in stop, or Len(s)
IndexFrom(s, i, stop) ==
    IF i >= Len(s) \/ At(s, i) \in stop THEN i ELSE IndexFrom(s, i + 1, stop)

RECURSIVE SpanFrom(_, _, _)
\* the first 0-based index at or after i whose byte is not in class, or Len(s)
SpanFrom(s, i, class) ==
    IF i >= Len(s) \/ At(s, i) \notin class THEN i ELSE SpanFrom(s, i + 1, class)

ByteSet == 0..255

\* [\s\x00-\x1f]
PromptLeadClass == 0..32

\* [\w-]
PromptUserClass == {b \in ByteSet : IsWordByte(b) \/ b = 45}

\* [\w.-]
PromptHostClass == {b \in ByteSet : IsWordByte(b) \/ b = 45 \/ b = 46}

ReSpaceClass == {chTab, chLF, chFF, chCR, chSpace}

editOpen == <<91,101,100,105,116>>  \* [edit

NoPromptMatch == [ok |-> FALSE, g |-> <<>>]

PromptMatch(input) ==
    LET n  == Len(input)
        \* group 1: \{[^}]+\}
        c1 == IndexFrom(input, 1, {125})
        e1 == IF n >= 1 /\ At(input, 0) = 123 /\ c1 < n /\ c1 >= 2 THEN c1 + 1 ELSE 0
        \* group 2: \[edit[^\]]*\]
        c2 == IndexFrom(input, e1 + 5, {93})
        e2 == IF HasPrefix(Slice(input, e1, n), editOpen) /\ c2 < n THEN c2 + 1 ELSE e1
        \* group 3, group 4, '@', group 5, group 6
        e3 == SpanFrom(input, e2, PromptLeadClass)
        e4 == SpanFrom(input, e3, PromptUserClass)
        e5 == SpanFrom(input, e4 + 1, PromptHostClass)
        \* group 7: \s*, then group 8: .*? and the optional final newline
        e7 == SpanFrom(input, e5 + 1, ReSpaceClass)
        nl == IndexFrom(input, e7, {chLF})
        e8 == IF nl = n - 1 THEN n - 1 ELSE n
    IN  IF /\ e4 > e3
           /\ e4 < n /\ At(input, e4) = 64
           /\ e5 > e4 + 1
           /\ e5 < n /\ At(input, e5) \in {62, 35}
           /\ nl >= n - 1
        THEN [ok |-> TRUE,
              g  |-> << Slice(input, 0, e1), Slice(input, e1, e2), Slice(input, e2, e3),
                        Slice(input, e3, e4), Slice(input, e4 + 1, e5),
                        Slice(input, e5, e5 + 1), Slice(input, e5 + 1, e7),
                        Slice(input, e7, e8) >>]
        ELSE NoPromptMatch

\* IsPrompt(input)
IsPrompt(input) == PromptMatch(TrimSpace(input)).ok

(***************************************************************************)
(* The Lexer (lexer.go).                                                   *)
(***************************************************************************)
\* lexer.New(input)
New(input) ==
    [input |-> input, pos |-> 0, line |-> 1, col |-> 1,
     parseMode |-> "Auto", detectedMode |-> FALSE,
     expectingValue |-> FALSE, expectingUnit |-> FALSE, lastToken |-> <<>>]

\* Lexer.SetParseMode(mode)
SetParseMode(l, mode) == [l EXCEPT !.parseMode = mode, !.detectedMode = TRUE]

\* a Token{Type, Value, Line, Column}
Token(type, value, line, column) ==
    [Type |-> type, Value |-> value, Line |-> line, Column |-> column]

\* Lexer.advance()
advance(l) ==
    IF l.pos < Len(l.input)
    THEN IF At(l.input, l.pos) = chLF
         THEN [l EXCEPT !.line = @ + 1, !.col = 1, !.pos = @ + 1]
         ELSE [l EXCEPT !.col = @ + 1, !.pos = @ + 1]
    ELSE l

RECURSIVE advanceTo(_, _)
\* advance() repeated until the cursor reaches p
advanceTo(l, p) == IF l.pos >= p \/ l.pos >= Len(l.input) THEN l ELSE advanceTo(advance(l), p)

\* Lexer.peek(offset)
peek(l, offset) ==
    LET pos == l.pos + offset
    IN  IF pos < Len(l.input) THEN At(l.input, pos) ELSE 0

\* isWhitespace(ch)
isWhitespace(ch) == ch \in {chSpace, chTab, chLF, chCR}

WhitespaceBytes == {chSpace, chTab, chLF, chCR}

\* the token input[start:pos] a scan function returns, with the lexer after it
Scanned(l0, l1, type) ==
    [lex |-> l1, tok |-> Token(type, Slice(l0.input, l0.pos, l1.pos), l0.line, l0.col)]

\* Lexer.scanDiffLine(): ok tells whether a diff token was found
scanDiffLine(l) ==
    LET ch == At(l.input, l.pos)
    IN  IF /\ ch = 91
           /\ l.pos + 5 < Len(l.input)
           /\ Slice(l.input, l.pos, l.pos + 5) = editOpen
        THEN [ok |-> TRUE] @@
             Scanned(l, advanceTo(l, IndexFrom(l.input, l.pos, {chLF})), "DiffContext")
        ELSE IF /\ ch \in {43, 45}
                /\ l.pos + 1 < Len(l.input)
                /\ At(l.input, l.pos + 1) \in {chSpace, chTab}
             THEN [ok |-> TRUE] @@
                  Scanned(l, advance(l), IF ch = 45 THEN "DiffRemove" ELSE "DiffAdd")
             ELSE [ok |-> FALSE, lex |-> l, tok |-> Token("Text", <<>>, 0, 0)]

\* Lexer.scanComment()
scanComment(l) ==
    Scanned(l, advanceTo(l, IndexFrom(l.input, l.pos, {chLF})),
            IF peek(l, 1) = 35 THEN "Annotation" ELSE "Comment")

RECURSIVE BlockCommentEnd(_, _)
\* the loop of scanBlockComment: the cursor where it stops
BlockCommentEnd(input, p) ==
    IF p < Len(input) - 1
    THEN IF At(input, p) = 42 /\ At(input, p + 1) = 47
         THEN p + 2
         ELSE BlockCommentEnd(input, p + 1)
    ELSE p

\* Lexer.scanBlockComment()
scanBlockComment(l) ==
    LET l2 == advance(advance(l))
    IN  Scanned(l, advanceTo(l2, BlockCommentEnd(l.input, l2.pos)), "Comment")

RECURSIVE StringEnd(_, _, _)
\* the loop of scanString: the cursor where it stops
StringEnd(input, p, quote) ==
    IF p < Len(input)
    THEN IF At(input, p) = quote THEN p + 1
         ELSE IF At(input, p) = 92 /\ p + 1 < Len(input)
              THEN StringEnd(input, p + 2, quote)
              ELSE StringEnd(input, p + 1, quote)
    ELSE p

\* Lexer.scanString(quote)
scanString(l, quote) ==
    LET l1 == advance(l)
    IN  Scanned(l, advanceTo(l1, StringEnd(l.input, l1.pos, quote)), "String")

\* Lexer.scanBrace()
scanBrace(l) == Scanned(l, advance(l), "Brace")

\* Lexer.scanSemicolon()
scanSemicolon(l) == Scanned(l, advance(l), "Semicolon")

\* strings.TrimRight(value, " \t") in scanUnquotedValue
TrimValue(value) == TrimRightSet(value, {chSpace, chTab})

\* Lexer.scanUnquotedValue()
scanUnquotedValue(l) ==
    LET l1 == advanceTo(l, IndexFrom(l.input, l.pos, {59, chLF}))
    IN  [lex |-> l1,
         tok |-> Token("Value", TrimValue(Slice(l.input, l.pos, l1.pos)), l.line, l.col)]

\* Lexer.scanWildcard()
scanWildcard(l) ==
    LET l1 == advance(l)
        l2 == advanceTo(l1, IndexFrom(l.input, l1.pos, {62}))
    IN  Scanned(l, IF l2.pos < Len(l.input) THEN advance(l2) ELSE l2, "Wildcard")

\* Lexer.scanWhitespace()
scanWhitespace(l) ==
    Scanned(l, advanceTo(l, SpanFrom(l.input, l.pos, WhitespaceBytes)), "Text")


\* the indicator lists of detectParseMode (lexer.go:1123, 1133-1138)
modeConfigIndicators == <<
    <<115,101,116,32>>,                    \* "set "
    <<100,101,108,101,116,101,32>>,        \* "delete "
    <<123>>, <<125>>, <<59>>,              \* "{" "}" ";"
    <<104,111,115,116,45,110,97,109,101>>, \* "host-name"
    <<112,111,108,105,99,121,45,115,116,97,116,101,109,101,110,116>>  \* "policy-statement"
>>

modeShowIndicators == <<
    <<101,115,116,97,98,108>>, <<105,100,108,101>>, <<50,119,97,121>>,   \* establ idle 2way
    <<105,110,101,116,46,48>>, <<105,110,101,116,54,46,48>>,             \* inet.0 inet6.0
    <<98,103,112,46,101,118,112,110>>,                                   \* bgp.evpn
    <<102,108,97,112,115>>, <<117,112,47,100,110>>,                      \* flaps up/dn
    <<112,104,121,115,105,99,97,108,32,105,110,116,101,114,102,97,99,101>>,  \* physical interface
    <<108,111,103,105,99,97,108,32,105,110,116,101,114,102,97,99,101>>       \* logical interface
>>

\* the number of the indicators that s contains
CountContained(s, indicators) ==
    Cardinality({i \in 1..Len(indicators) : Contains(s, indicators[i])})

parseModeDetectionSampleSize == 500

\* a detectParseMode that scores the whole input
detectParseModeWholeInput(l) ==
    LET lower == ToLower(l.input)
        configScore == CountContained(lower, modeConfigIndicators)
        showScore == CountContained(lower, modeShowIndicators)
                     + (IF tabularPattern(l.input) THEN 2 ELSE 0)
    IN  IF showScore >= 2 /\ showScore > configScore THEN "Show" ELSE "Config"

\* Lexer.detectParseMode()
detectParseMode(l) ==
    LET sample == IF Len(l.input) > parseModeDetectionSampleSize
                  THEN Slice(l.input, 0, parseModeDetectionSampleSize)
                  ELSE l.input
        lower == ToLower(sample)
        configScore == CountContained(lower, modeConfigIndicators)
        showScore == CountContained(lower, modeShowIndicators)
                     + (IF tabularPattern(sample) THEN 2 ELSE 0)
    IN  IF showScore >= 2 /\ showScore > configScore THEN "Show" ELSE "Config"

\* a classifySharedPatterns that tries the IPv6 patterns before MAC and community
classifySharedPatternsIPv6First(word) ==
    IF interfacePattern(word) THEN "Interface"
    ELSE IF ipv4PrefixPattern(word) THEN "IPv4Prefix"
    ELSE IF ipv4Pattern(word) THEN "IPv4"
    ELSE IF ipv6PrefixPattern(word) THEN "IPv6Prefix"
    ELSE IF ipv6Pattern(word) THEN "IPv6"
    ELSE IF macPattern(word) THEN "MAC"
    ELSE IF communityPattern(word) THEN "Community"
    ELSE IF numberPattern(word) THEN "Number"
    ELSE "Identifier"

\* Lexer.classifySharedPatterns(word)
classifySharedPatterns(word) ==
    IF interfacePattern(word) THEN "Interface"
    ELSE IF ipv4PrefixPattern(word) THEN "IPv4Prefix"
    ELSE IF ipv4Pattern(word) THEN "IPv4"
    ELSE IF macPattern(word) THEN "MAC"
    ELSE IF communityPattern(word) THEN "Community"
    ELSE IF ipv6PrefixPattern(word) THEN "IPv6Prefix"
    ELSE IF ipv6Pattern(word) THEN "IPv6"
    ELSE IF numberPattern(word) THEN "Number"
    ELSE "Identifier"

\* what classifyWord and its helpers return: the token type and the lexer after
Classified(l, type) == [lex |-> l, type |-> type]

\* a classifyConfigWord that looks a word up in the keyword set first
classifyConfigWordKeywordFirst(l, word, lower) ==
    IF l.expectingUnit /\ unitNumberPattern(word)
    THEN Classified([l EXCEPT !.expectingUnit = FALSE], "Unit")
    ELSE IF asnPattern(word) THEN Classified(l, "ASN")
    ELSE IF lower \in keywords
         THEN Classified([l EXCEPT
                            !.expectingValue = IF lower \in valueKeywords THEN TRUE ELSE @,
                            !.expectingUnit = IF lower = <<117,110,105,116>> THEN TRUE ELSE @,
                            !.lastToken = lower],
                         "Keyword")
    ELSE IF lower \in commands THEN Classified([l EXCEPT !.lastToken = lower], "Command")
    ELSE IF lower \in sections THEN Classified([l EXCEPT !.lastToken = lower], "Section")
    ELSE IF lower \in protocols THEN Classified([l EXCEPT !.lastToken = lower], "Protocol")
    ELSE IF lower \in actions THEN Classified([l EXCEPT !.lastToken = lower], "Action")
    ELSE Classified(l, classifySharedPatterns(word))

\* Lexer.classifyConfigWord(word, lower)
classifyConfigWord(l, word, lower) ==
    IF l.expectingUnit /\ unitNumberPattern(word)
    THEN Classified([l EXCEPT !.expectingUnit = FALSE], "Unit")
    ELSE IF asnPattern(word) THEN Classified(l, "ASN")
    ELSE IF lower \in commands THEN Classified([l EXCEPT !.lastToken = lower], "Command")
    ELSE IF lower \in sections THEN Classified([l EXCEPT !.lastToken = lower], "Section")
    ELSE IF lower \in protocols THEN Classified([l EXCEPT !.lastToken = lower], "Protocol")
    ELSE IF lower \in actions THEN Classified([l EXCEPT !.lastToken = lower], "Action")
    ELSE IF lower \in keywords
         THEN Classified([l EXCEPT
                            !.expectingValue = IF lower \in valueKeywords THEN TRUE ELSE @,
                            !.expectingUnit = IF lower = <<117,110,105,116>> THEN TRUE ELSE @,
                            !.lastToken = lower],
                         "Keyword")
    ELSE Classified(l, classifySharedPatterns(word))

\* Lexer.classifyShowWord(word, lower)
classifyShowWord(l, word, lower) ==
    IF lower \in statesGood THEN Classified(l, "StateGood")
    ELSE IF lower \in statesBad THEN Classified(l, "StateBad")
    ELSE IF lower \in statesWarning THEN Classified(l, "StateWarning")
    ELSE IF lower \in statesNeutral THEN Classified(l, "StateNeutral")
    ELSE IF Len(word) <= 2 /\ word \in statusSymbols THEN Classified(l, "StatusSymbol")
    ELSE IF timeDurationPattern(word) THEN Classified(l, "TimeDuration")
    ELSE IF percentagePattern(word) THEN Classified(l, "Percentage")
    ELSE IF byteSizePattern(word) THEN Classified(l, "ByteSize")
    ELSE IF routeProtocolPattern(word) THEN Classified(l, "RouteProtocol")
    ELSE IF tableNamePattern(lower) THEN Classified(l, "TableName")
    ELSE IF lower \in columnHeaders THEN Classified(l, "ColumnHeader")
    ELSE Classified(l, classifySharedPatterns(word))

\* a classifyWord that scores every word on its own and never latches a mode
classifyWordNeverLatches(l, word) ==
    LET lower == ToLower(word)
        mode == IF l.parseMode = "Auto"
                THEN detectParseMode([l EXCEPT !.input = word])
                ELSE l.parseMode
    IN  IF mode = "Show"
        THEN classifyShowWord(l, word, lower)
        ELSE classifyConfigWord(l, word, lower)

\* Lexer.classifyWord(word)
classifyWord(l, word) ==
    LET l1 == IF l.parseMode = "Auto" /\ ~l.detectedMode
              THEN [l EXCEPT !.parseMode = detectParseMode(l), !.detectedMode = TRUE]
              ELSE l
        lower == ToLower(word)
    IN  IF l1.parseMode = "Show"
        THEN classifyShowWord(l1, word, lower)
        ELSE classifyConfigWord(l1, word, lower)

\* the bytes that end a bare word in scanWord
WordStopBytes == WhitespaceBytes \cup {123, 125, 59, 34, 39, 35}

\* Lexer.scanWord()
scanWord(l) ==
    LET l1 == advanceTo(l, IndexFrom(l.input, l.pos, WordStopBytes))
        word == Slice(l.input, l.pos, l1.pos)
        c == classifyWord(l1, word)
    IN  [lex |-> c.lex, tok |-> Token(c.type, word, l.line, l.col)]

\* a quoted string that keeps the kind string when a value was expected
scanQuotedKeepsKind(l, quote) == scanString([l EXCEPT !.expectingValue = FALSE], quote)

\* a quoted string met by nextToken: kind value when a value was expected
scanQuoted(l, quote) ==
    LET r == scanString([l EXCEPT !.expectingValue = FALSE], quote)
    IN  IF l.expectingValue THEN [r EXCEPT !.tok.Type = "Value"] ELSE r

\* a switch that tests the expectation of a value before the whitespace case
nextTokenSwitchValueFirst(l) ==
    LET ch == At(l.input, l.pos)
    IN  IF ch = 35 THEN scanComment(l)
        ELSE IF ch = 47 /\ peek(l, 1) = 42 THEN scanBlockComment(l)
        ELSE IF ch = 34 THEN scanQuoted(l, 34)
        ELSE IF ch = 39 THEN scanQuoted(l, 39)
        ELSE IF ch \in {123, 125} THEN scanBrace([l EXCEPT !.expectingValue = FALSE])
        ELSE IF ch = 59 THEN scanSemicolon([l EXCEPT !.expectingValue = FALSE])
        ELSE IF ch = 60 THEN scanWildcard(l)
        ELSE IF ch = 42 THEN Scanned(l, advance(l), "Wildcard")
        ELSE IF l.expectingValue
             THEN scanUnquotedValue([l EXCEPT !.expectingValue = FALSE])
        ELSE IF isWhitespace(ch) THEN scanWhitespace(l)
        ELSE scanWord(l)

\* the switch of nextToken on the byte at the cursor
nextTokenSwitch(l) ==
    LET ch == At(l.input, l.pos)
    IN  IF ch = 35 THEN scanComment(l)
        ELSE IF ch = 47 /\ peek(l, 1) = 42 THEN scanBlockComment(l)
        ELSE IF ch = 34 THEN scanQuoted(l, 34)
        ELSE IF ch = 39 THEN scanQuoted(l, 39)
        ELSE IF ch \in {123, 125} THEN scanBrace([l EXCEPT !.expectingValue = FALSE])
        ELSE IF ch = 59 THEN scanSemicolon([l EXCEPT !.expectingValue = FALSE])
        ELSE IF ch = 60 THEN scanWildcard(l)
        ELSE IF ch = 42 THEN Scanned(l, advance(l), "Wildcard")
        ELSE IF isWhitespace(ch) THEN scanWhitespace(l)
        ELSE IF l.expectingValue
             THEN scanUnquotedValue([l EXCEPT !.expectingValue = FALSE])
             ELSE scanWord(l)

\* Lexer.nextToken()
nextToken(l) ==
    IF l.pos >= Len(l.input)
    THEN [lex |-> l, tok |-> Token("Text", <<>>, l.line, l.col)]
    ELSE LET d == scanDiffLine(l)
         IN  IF l.col = 1 /\ d.ok
             THEN [lex |-> d.lex, tok |-> d.tok]
             ELSE nextTokenSwitch(l)

\* the test of the Tokenize loop on a token
KeepToken(tok) == tok.Type # "Text" \/ tok.Value # <<>>

\* the body of the Tokenize loop on the result r of nextToken: the token is
\* appended unless it is an empty Text token
TokenizeStep(r, tokens) ==
    [lex |-> r.lex, tokens |-> IF KeepToken(r.tok) THEN Append(tokens, r.tok) ELSE tokens]

RECURSIVE TokenizeLoop(_)
\* the scan loop of Tokenize, st being [lex, tokens]
TokenizeLoop(st) ==
    IF st.lex.pos < Len(st.lex.input)
    THEN TokenizeLoop(TokenizeStep(nextToken(st.lex), st.tokens))
    ELSE st.tokens

RECURSIVE Recolumn(_, _)
\* the command tokens of a prompt, their columns rewritten from col on
Recolumn(toks, col) ==
    IF toks = <<>> THEN <<>>
    ELSE <<[Head(toks) EXCEPT !.Column = col]>>
         \o Recolumn(Tail(toks), col + Len(Head(toks).Value))

\* one optional token of the prompt decomposition
OptToken(type, value, col) == IF value # <<>> THEN <<Token(type, value, 1, col)>> ELSE <<>>

\* tryTokenizePrompt with the host kind not following the mode character
PromptTokensHostOper(input, g, cmd) ==
    LET col4 == 1 + Len(g[1]) + Len(g[2]) + Len(g[3])
        col5 == col4 + Len(g[4]) + 1
        col6 == col5 + Len(g[5])
        col8 == col6 + 1 + Len(g[7])
        toks == Recolumn(cmd, col8)
        colN == col8 + Len(Concat([i \in 1..Len(toks) |-> toks[i].Value]))
    IN  OptToken("PromptEdit", g[1], 1)
        \o OptToken("PromptEdit", g[2], 1 + Len(g[1]))
        \o OptToken("Text", g[3], col4 - Len(g[3]))
        \o <<Token("PromptUser", g[4], 1, col4)>>
        \o <<Token("PromptAt", <<64>>, 1, col4 + Len(g[4]))>>
        \o <<Token("PromptHostOper", g[5], 1, col5)>>
        \o <<Token(IF g[6] = <<35>> THEN "PromptConf" ELSE "PromptOper", g[6], 1, col6)>>
        \o OptToken("Text", g[7], col6 + 1)
        \o toks
        \o (IF HasSuffix(input, <<chLF>>) THEN <<Token("Text", <<chLF>>, 1, colN)>> ELSE <<>>)

\* Lexer.tryTokenizePrompt(input): the tokens of a matching prompt line, cmd
\* being the tokens of the trailing command
PromptTokens(input, g, cmd) ==
    LET isConfig == g[6] = <<35>>
        col3 == 1 + Len(g[1]) + Len(g[2])
        col4 == col3 + Len(g[3])
        col5 == col4 + Len(g[4]) + 1
        col6 == col5 + Len(g[5])
        col7 == col6 + 1
        col8 == col7 + Len(g[7])
        toks == Recolumn(cmd, col8)
        colN == col8 + Len(Concat([i \in 1..Len(toks) |-> toks[i].Value]))
    IN  OptToken("PromptEdit", g[1], 1)
        \o OptToken("PromptEdit", g[2], 1 + Len(g[1]))
        \o OptToken("Text", g[3], col3)
        \o <<Token("PromptUser", g[4], 1, col4)>>
        \o <<Token("PromptAt", <<64>>, 1, col4 + Len(g[4]))>>
        \o <<Token(IF isConfig THEN "PromptHostConf" ELSE "PromptHostOper", g[5], 1, col5)>>
        \o <<Token(IF isConfig THEN "PromptConf" ELSE "PromptOper", g[6], 1, col6)>>
        \o OptToken("Text", g[7], col7)
        \o toks
        \o (IF HasSuffix(input, <<chLF>>) THEN <<Token("Text", <<chLF>>, 1, colN)>> ELSE <<>>)

\* Lexer.Tokenize() of lexer l, p being the result of its prompt check
TokenizeWith(l, p) ==
    IF p.ok THEN p.tokens ELSE TokenizeLoop([lex |-> l, tokens |-> <<>>])

RECURSIVE tryTokenizePrompt(_)
\* Lexer.tryTokenizePrompt(input): ok is FALSE for the nil result; the trailing
\* command is tokenized by a lexer of its own
tryTokenizePrompt(input) ==
    LET m == PromptMatch(input)
    IN  IF m.ok
        THEN LET cmd == TrimSpace(m.g[8])
             IN  [ok |-> TRUE,
                  tokens |-> PromptTokens(input, m.g,
                                 IF m.g[8] # <<>>
                                 THEN TokenizeWith(New(cmd), tryTokenizePrompt(cmd))
                                 ELSE <<>>)]
        ELSE [ok |-> FALSE, tokens |-> <<>>]

\* Lexer.Tokenize()
Tokenize(l) == TokenizeWith(l, tryTokenizePrompt(l.input))

\* the concatenation of the Value fields of a token sequence
TokenValues(tokens) == Concat([i \in 1..Len(tokens) |-> tokens[i].Value])


(***************************************************************************)
(* Themes (highlighter.go:436-1064).                                       *)
(***************************************************************************)
RECURSIVE Itoa(_)
\* strconv.Itoa for n >= 0
Itoa(n) == IF n < 10 THEN <<48 + n>> ELSE Itoa(n \div 10) \o <<48 + (n % 10)>>

\* "\033[" + params + "m"
Sgr(params) == <<escapeChar, csiBracket>> \o params \o <<109>>

Reset  == Sgr(Itoa(0))
Bold   == Sgr(Itoa(1))
Dim    == Sgr(Itoa(2))
Italic == Sgr(Itoa(3))

Yellow        == Sgr(Itoa(33))
Magenta       == Sgr(Itoa(35))
Cyan          == Sgr(Itoa(36))
White         == Sgr(Itoa(37))
BrightBlack   == Sgr(Itoa(90))
BrightRed     == Sgr(Itoa(91))
BrightGreen   == Sgr(Itoa(92))
BrightYellow  == Sgr(Itoa(93))
BrightBlue    == Sgr(Itoa(94))
BrightMagenta == Sgr(Itoa(95))
BrightCyan    == Sgr(Itoa(96))
BrightWhite   == Sgr(Itoa(97))

\* Color256(n)
Color256(n) == Sgr(<<51,56,59,53,59>> \o Itoa(n))

\* RGB(r, g, b)
RGB(r, g, b) == Sgr(<<51,56,59,50,59>> \o Itoa(r) \o <<59>> \o Itoa(g) \o <<59>> \o Itoa(b))

\* the Palette of TokyoNightTheme()
TokyoNightPalette ==
    LET foreground == RGB(192, 202, 245)
        comment    == RGB(86, 95, 137)
        red        == RGB(247, 118, 142)
        green      == RGB(158, 206, 106)
        yellow     == RGB(224, 175, 104)
        blue       == RGB(122, 162, 247)
        magenta    == RGB(187, 154, 247)
        cyan       == RGB(125, 207, 255)
        orange     == RGB(255, 158, 100)
        purple     == RGB(157, 124, 216)
        teal       == RGB(115, 218, 202)
    IN  [Foreground |-> foreground, Comment |-> comment, Command |-> magenta,
         Section |-> blue, Protocol |-> cyan, Action |-> green, Interface |-> orange,
         IP |-> teal, Number |-> purple, String |-> green, Keyword |-> yellow,
         Operator |-> blue, ASN |-> orange, Community |-> magenta, Value |-> cyan,
         Wildcard |-> red, MAC |-> cyan, StateGood |-> green, StateBad |-> red,
         StateWarning |-> yellow, Duration |-> orange, RouteProtocol |-> purple,
         TableName |-> blue, PromptUser |-> Color256(32), PromptAt |-> Color256(163),
         PromptHostOper |-> Color256(35), PromptHostConf |-> Color256(128),
         PromptOper |-> Color256(128), PromptConf |-> Color256(35),
         PromptEdit |-> Dim \o comment]

\* the Palette of VibrantTheme()
VibrantPalette ==
    [Foreground |-> White, Comment |-> Dim \o BrightBlack, Command |-> BrightYellow,
     Section |-> BrightBlue, Protocol |-> BrightCyan, Action |-> BrightGreen,
     Interface |-> BrightMagenta, IP |-> BrightGreen, Number |-> BrightCyan,
     String |-> BrightYellow, Keyword |-> Yellow, Operator |-> BrightWhite,
     ASN |-> BrightMagenta, Community |-> Magenta, Value |-> BrightCyan,
     Wildcard |-> BrightRed, MAC |-> Cyan, StateGood |-> BrightGreen,
     StateBad |-> BrightRed, StateWarning |-> BrightYellow, Duration |-> BrightMagenta,
     RouteProtocol |-> Magenta, TableName |-> BrightBlue,
     PromptUser |-> Bold \o BrightGreen, PromptAt |-> White,
     PromptHostOper |-> Bold \o BrightCyan, PromptHostConf |-> Bold \o BrightMagenta,
     PromptOper |-> Bold \o BrightGreen, PromptConf |-> Bold \o BrightRed,
     PromptEdit |-> BrightYellow]

\* buildTheme(p): the colors map of the Theme
buildTheme(p) ==
    [Command |-> Bold \o p.Command, Section |-> Bold \o p.Section,
     Protocol |-> p.Protocol, Action |-> Bold \o p.Action,
     Interface |-> Bold \o p.Interface, IPv4 |-> p.IP, IPv4Prefix |-> p.IP,
     IPv6 |-> p.IP, IPv6Prefix |-> p.IP, MAC |-> p.MAC, Number |-> p.Number,
     String |-> p.String, Comment |-> Italic \o p.Comment,
     Annotation |-> Italic \o p.Comment, Brace |-> p.Foreground,
     Semicolon |-> p.Comment, Wildcard |-> p.Wildcard, Identifier |-> p.Foreground,
     Keyword |-> p.Keyword, Operator |-> p.Operator, Unit |-> p.Number,
     ASN |-> p.ASN, Community |-> p.Community, Value |-> p.Value, Text |-> <<>>,
     StateGood |-> Bold \o p.StateGood, StateBad |-> Bold \o p.StateBad,
     StateWarning |-> Bold \o p.StateWarning, StateNeutral |-> Dim \o p.Comment,
     ColumnHeader |-> Bold \o p.Foreground, StatusSymbol |-> Bold \o p.Protocol,
     TimeDuration |-> p.Duration, Percentage |-> p.StateGood, ByteSize |-> p.Protocol,
     RouteProtocol |-> Bold \o p.RouteProtocol, TableName |-> Bold \o p.TableName,
     PromptUser |-> p.PromptUser, PromptAt |-> p.PromptAt,
     PromptHostOper |-> p.PromptHostOper, PromptHostConf |-> p.PromptHostConf,
     PromptOper |-> p.PromptOper, PromptConf |-> p.PromptConf,
     PromptEdit |-> p.PromptEdit,
     DiffAdd |-> Bold \o p.StateGood, DiffRemove |-> Bold \o p.StateBad,
     DiffContext |-> Bold \o p.Protocol]

TokyoNightTheme == buildTheme(TokyoNightPalette)

VibrantTheme == buildTheme(VibrantPalette)

\* the themes of the model, by the names ThemeByName knows them by
ThemeNames == {"tokyonight", "vibrant"}

\* ThemeByName(name)
ThemeByName(name) == IF name = "vibrant" THEN VibrantTheme ELSE TokyoNightTheme

\* Theme.GetColor(tokenType)
GetColor(theme, tokenType) ==
    IF tokenType \in DOMAIN theme THEN theme[tokenType] ELSE <<>>

(***************************************************************************)
(* The Highlighter (highlighter.go:11-312).  A Highlighter value is the    *)
(* record [enabled, theme] of its two guarded fields; theme is a name.     *)
(***************************************************************************)
RECURSIVE RenderLoop(_, _)
\* the loop of renderTokens over the tokens
RenderLoop(theme, tokens) ==
    IF tokens = <<>> THEN <<>>
    ELSE LET token == Head(tokens)
             color == GetColor(theme, token.Type)
         IN  (IF color # <<>> THEN color \o token.Value \o Reset ELSE token.Value)
             \o RenderLoop(theme, Tail(tokens))

\* Highlighter.renderTokens(tokens), with the theme it read under the lock
renderTokens(theme, tokens) == RenderLoop(ThemeByName(theme), tokens)

\* Highlighter.highlightTokensCleaned(cleaned)
highlightTokensCleaned(theme, cleaned) == renderTokens(theme, Tokenize(New(cleaned)))

RECURSIVE HighlightSegments(_, _)
\* the loop of highlightTokens over the segments
HighlightSegments(theme, segments) ==
    IF segments = <<>> THEN <<>>
    ELSE LET seg == Head(segments)
         IN  (IF seg.isEscape THEN seg.text ELSE highlightTokensCleaned(theme, seg.text))
             \o HighlightSegments(theme, Tail(segments))

\* a highlightTokens that strips the escape sequences before tokenizing, as
\* Highlight does
highlightTokensStripped(theme, input) ==
    highlightTokensCleaned(theme, StripANSI(input))

\* Highlighter.highlightTokens(input)
highlightTokens(theme, input) == HighlightSegments(theme, extractSegments(input))

\* the indicator lists of looksLikeJunOS (highlighter.go:169-188)
configIndicators == <<
    <<115,101,116,32>>,  \* "set "
    <<100,101,108,101,116,101,32>>,  \* "delete "
    <<115,104,111,119,32>>,  \* "show "
    <<101,100,105,116,32>>,  \* "edit "
    <<105,110,116,101,114,102,97,99,101,115,32,123>>,  \* "interfaces {"
    <<115,121,115,116,101,109,32,123>>,  \* "system {"
    <<112,114,111,116,111,99,111,108,115,32,123>>,  \* "protocols {"
    <<114,111,117,116,105,110,103,45,111,112,116,105,111,110,115>>,  \* "routing-options"
    <<112,111,108,105,99,121,45,111,112,116,105,111,110,115>>,  \* "policy-options"
    <<102,105,114,101,119,97,108,108,32,123>>,  \* "firewall {"
    <<115,101,99,117,114,105,116,121,32,123>>,  \* "security {"
    <<103,114,111,117,112,115,32,123>>,  \* "groups {"
    <<118,108,97,110,115,32,123>>,  \* "vlans {"
    <<103,101,45>>,  \* "ge-"
    <<120,101,45>>,  \* "xe-"
    <<101,116,45>>,  \* "et-"
    <<97,101>>,  \* "ae"
    <<108,111,48>>,  \* "lo0"
    <<102,97,109,105,108,121,32,105,110,101,116>>,  \* "family inet"
    <<117,110,105,116,32>>,  \* "unit "
    <<118,108,97,110,45,105,100>>,  \* "vlan-id"
    <<111,115,112,102>>,  \* "ospf"
    <<98,103,112>>,  \* "bgp"
    <<110,101,105,103,104,98,111,114>>,  \* "neighbor"
    <<103,114,111,117,112>>  \* "group"
>>

showIndicators == <<
    <<101,115,116,97,98,108>>,  \* "establ"
    <<105,100,108,101>>,  \* "idle"
    <<102,117,108,108>>,  \* "full"
    <<50,119,97,121>>,  \* "2way"
    <<105,110,101,116,46,48>>,  \* "inet.0"
    <<105,110,101,116,54,46,48>>,  \* "inet6.0"
    <<109,112,108,115,46,48>>,  \* "mpls.0"
    <<98,103,112,46,101,118,112,110>>,  \* "bgp.evpn"
    <<98,103,112,32,115,117,109,109,97,114,121>>,  \* "bgp summary"
    <<111,115,112,102,32,110,101,105,103,104,98,111,114>>,  \* "ospf neighbor"
    <<105,110,116,101,114,102,97,99,101,32,116,101,114,115,101>>,  \* "interface terse"
    <<112,104,121,115,105,99,97,108,32,105,110,116,101,114,102,97,99,101>>,  \* "physical interface"
    <<108,111,103,105,99,97,108,32,105,110,116,101,114,102,97,99,101>>,  \* "logical interface"
    <<114,111,117,116,105,110,103,32,116,97,98,108,101>>,  \* "routing table"
    <<102,108,97,112,115>>,  \* "flaps"
    <<117,112,47,100,110>>,  \* "up/dn"
    <<115,116,97,116,101,58>>,  \* "state:"
    <<97,100,109,105,110,32,108,105,110,107>>,  \* "admin link"
    <<111,117,116,113>>  \* "outq"
>>

commandPrefixes == <<
    <<115,101,116,32>>,  \* "set "
    <<100,101,108,101,116,101,32>>,  \* "delete "
    <<115,104,111,119,32>>,  \* "show "
    <<101,100,105,116,32>>,  \* "edit "
    <<114,101,113,117,101,115,116,32>>,  \* "request "
    <<35,35>>  \* "##"
>>

\* isAlphanumeric(ch)
isAlphanumeric(ch) ==
    (ch >= 97 /\ ch <= 122) \/ (ch >= 65 /\ ch <= 90) \/ (ch >= 48 /\ ch <= 57)

\* isAlphanumericOrDash(ch)
isAlphanumericOrDash(ch) == isAlphanumeric(ch) \/ ch = 45

\* Highlighter.isPromptLine(input)
isPromptLine(input) ==
    \/ IsPrompt(input)
    \/ LET atIdx == IndexByte(input, 64)
       IN  /\ atIdx # -1
           /\ (IndexByte(input, 62) # -1 \/ IndexByte(input, 35) # -1)
           /\ ~(atIdx <= 0 \/ atIdx >= Len(input) - 1)
           /\ isAlphanumericOrDash(At(input, atIdx - 1))
           /\ isAlphanumeric(At(input, atIdx + 1))

\* whether s contains one of the indicators
ContainsAny(s, indicators) == \E i \in 1..Len(indicators) : Contains(s, indicators[i])

\* Highlighter.hasConfigIndicators(lower)
hasConfigIndicators(lower) == ContainsAny(lower, configIndicators)

\* Highlighter.hasShowIndicators(lower)
hasShowIndicators(lower) == ContainsAny(lower, showIndicators)

\* Highlighter.hasStructuralPatterns(input, lower)
hasStructuralPatterns(input, lower) ==
    /\ (Contains(input, <<123, chLF>>) \/ Contains(input, <<59>>))
    /\ \/ Contains(lower, <<118,101,114,115,105,111,110,32>>)      \* "version "
       \/ Contains(input, <<35>>)
       \/ Contains(lower, <<104,111,115,116,45,110,97,109,101>>)   \* "host-name"

\* Highlighter.startsWithCommand(input)
startsWithCommand(input) ==
    LET lowerTrimmed == ToLower(TrimSpace(input))
    IN  \E i \in 1..Len(commandPrefixes) : HasPrefix(lowerTrimmed, commandPrefixes[i])

\* Highlighter.looksLikeJunOS(input)
looksLikeJunOS(input) ==
    \/ isPromptLine(input)
    \/ hasConfigIndicators(ToLower(input))
    \/ hasShowIndicators(ToLower(input))
    \/ hasStructuralPatterns(input, ToLower(input))
    \/ startsWithCommand(input)

\* a Highlight that returns the stripped text for input the sniffer rejects
HighlightReturnsCleaned(h, input) ==
    IF ~h.enabled \/ input = <<>> THEN input
    ELSE LET cleaned == StripANSI(input)
         IN  IF ~looksLikeJunOS(cleaned) THEN cleaned
             ELSE highlightTokensCleaned(h.theme, cleaned)

\* Highlighter.Highlight(input), on the Highlighter h
Highlight(h, input) ==
    IF ~h.enabled \/ input = <<>> THEN input
    ELSE LET cleaned == StripANSI(input)
         IN  IF ~looksLikeJunOS(cleaned) THEN input
             ELSE highlightTokensCleaned(h.theme, cleaned)

\* Highlighter.HighlightForced(input), on the Highlighter h
HighlightForced(h, input) ==
    IF ~h.enabled \/ input = <<>> THEN input ELSE highlightTokens(h.theme, input)

\* Highlighter.HighlightShowOutput(input), on the Highlighter h
HighlightShowOutput(h, input) ==
    IF ~h.enabled \/ input = <<>> THEN input
    ELSE renderTokens(h.theme, Tokenize(SetParseMode(New(input), "Show")))

\* highlighter.New() and NewWithTheme(theme)
NewHighlighter(theme) == [enabled |-> TRUE, theme |-> theme]


(***************************************************************************)
(* Terminal (highlighter.go:1066-1267).                                    *)
(***************************************************************************)
\* readBufferSize: the size of the buffer one Read fills
readBufferSize == 32 * 1024

\* a writeOutput that strips the escape sequences when highlighting is off
writeOutputStripped(enabled, hl, data) ==
    IF enabled THEN HighlightForced(hl, data) ELSE StripANSI(data)

\* Terminal.writeOutput(w, data): the bytes handed to w.Write
writeOutput(enabled, hl, data) ==
    IF enabled THEN HighlightForced(hl, data) ELSE data

RECURSIVE ProcessBytesNewlineOnly(_, _, _, _, _)
\* a byte loop that flushes on newline only, whatever the length of the buffer
ProcessBytesNewlineOnly(enabled, hl, data, i, st) ==
    IF i >= Len(data) THEN st
    ELSE LET b   == At(data, i)
             buf == Append(st.lineBuf, b)
         IN  IF b = chLF
             THEN ProcessBytesNewlineOnly(enabled, hl, data, i + 1,
                      [lineBuf |-> <<>>,
                       writes  |-> Append(st.writes, writeOutput(enabled, hl, buf))])
             ELSE ProcessBytesNewlineOnly(enabled, hl, data, i + 1,
                                          [st EXCEPT !.lineBuf = buf])

RECURSIVE ProcessBytes(_, _, _, _, _)
\* the byte loop of processOutput over the data of one Read: st is
\* [lineBuf, writes], i the index of the next byte
ProcessBytes(enabled, hl, data, i, st) ==
    IF i >= Len(data) THEN st
    ELSE LET b   == At(data, i)
             buf == Append(st.lineBuf, b)
         IN  IF b = chLF \/ Len(buf) > lineFlushLimit
             THEN ProcessBytes(enabled, hl, data, i + 1,
                      [lineBuf |-> <<>>,
                       writes  |-> Append(st.writes, writeOutput(enabled, hl, buf))])
             ELSE ProcessBytes(enabled, hl, data, i + 1, [st EXCEPT !.lineBuf = buf])

\* the byte loop alone, the partial line left in the line buffer
ProcessReadNoPartialFlush(enabled, hl, data, st) ==
    IF Len(data) > 0 THEN ProcessBytes(enabled, hl, data, 0, st) ELSE st

\* the flush of the partial line at the end of a Read, st being [lineBuf, writes]
FlushPartial(enabled, hl, st) ==
    IF Len(st.lineBuf) > 0
    THEN [lineBuf |-> <<>>,
          writes  |-> Append(st.writes, writeOutput(enabled, hl, st.lineBuf))]
    ELSE st

\* one turn of the read loop of processOutput on the data of a Read: for
\* n > 0 the byte loop, then the flush of the partial line
ProcessRead(enabled, hl, data, st) ==
    IF Len(data) > 0
    THEN FlushPartial(enabled, hl, ProcessBytes(enabled, hl, data, 0, st))
    ELSE st


\* the line buffers one turn of the read loop hands to writeOutput, in
\* order: what the turn writes when nothing is highlighted
Flushes(data, buf) ==
    ProcessRead(FALSE, NewHighlighter("tokyonight"), data,
                [lineBuf |-> buf, writes |-> <<>>]).writes

(***************************************************************************)
(* State.                                                                  *)
(***************************************************************************)
VARIABLES
    segInput,      \* the string handed to the segmenter and the stripper
    segPc,         \* "new", "segmented", "stripped" or "restripped"
    segments,      \* the result of extractSegments(segInput)
    stripOnce,     \* the result of StripANSI(segInput)
    stripTwice,    \* the result of StripANSI(stripOnce)
    lex,           \* the Lexer of one Tokenize call
    lexPc,         \* "new", "scan" or "done"
    tokens,        \* the tokens Tokenize has collected
    h,             \* the Highlighter: [enabled, theme]
    hCall,         \* the last call on h: [op, input, enabled, theme, result]
    termEnabled,   \* Terminal.enabled
    src,           \* the bytes the pty hands to processOutput, over all its Reads
    srcPos,        \* how many bytes of src have been read
    lineBuf,       \* the line buffer of processOutput
    writes,        \* the byte strings handed to w.Write, in order
    lastRead,      \* what the last Read returned: [n, err]
    flushed,       \* the line buffers handed to writeOutput in the last turn
    termPc,        \* "new", "relay" or "done"
    force,         \* highlightStdin: the force argument
    disabled,      \* highlightStdin: the disabled argument
    stdinLines,    \* the lines ReadString has yet to return
    detectedJunOS, \* highlightStdin: the sticky detection flag
    printed,       \* one record [line, out, before, after] per line printed
    stdinPc,       \* "reading", "done" or "failed"
    runPc,         \* where Run is: "start", "notify", "send", "makeRaw", "spawn",
                   \* "waitDone", "waitCmd", "unwind" or "returned"
    defers,        \* the deferred closures of Run, each a sequence of steps
    cleanup,       \* the steps of the deferred closures still to run
    pty,           \* the pty handle: "none", "open" or "closed"
    sigSub,        \* whether sigCh is subscribed to SIGWINCH
    sigBuf,        \* how many signals sigCh holds (capacity 1)
    sigClosed,     \* whether sigCh was closed
    sigHandler,    \* the resize handler: "none", "waiting", "resizing", "exited"
    raw,           \* the controlling terminal: "cooked", "raw" or "restored"
    inRelay,       \* the input relay: "none", "reading", "writing" or "ended"
    doneClosed,    \* whether the done channel was closed
    cmd,           \* the subprocess: "none", "running" or "exited"
    exitOk,        \* whether the subprocess exited cleanly
    faults,        \* the failures that have happened
    misuse,        \* uses of a closed handle or channel that have happened
    runResult,     \* what Run returned: "none", "nil", "startErr", "rawErr", "waitErr"
    mu,            \* h.mu: [writer, readers], the tasks that hold it
    cfg,           \* the setter call of each task: [pc, op, theme, local, ret]
    lk,            \* the writeOutput call of the relay: [pc, input, segs, toks,
                   \* out, enabled, theme, themes]
    lastAccess     \* the last access to a shared field: [task, field, kind, locked]

segVars == <<segInput, segPc, segments, stripOnce, stripTwice>>
lexVars == <<lex, lexPc, tokens>>
hlVars  == <<h, hCall>>
termVars  == <<termEnabled, src, srcPos, lineBuf, writes, lastRead, flushed, termPc>>
stdinVars == <<force, disabled, stdinLines, detectedJunOS, printed, stdinPc>>
runVars == <<runPc, defers, cleanup, pty, sigSub, sigBuf, sigClosed, sigHandler, raw,
             inRelay, doneClosed, cmd, exitOk, faults, misuse, runResult>>
lockVars == <<mu, cfg, lk, lastAccess>>
taskVars == <<runVars, lockVars>>
notRun  == <<segVars, lexVars, hlVars, stdinVars, lockVars>>
notLock == <<segVars, lexVars, stdinVars, runVars>>
vars    == <<segVars, lexVars, hlVars, termVars, stdinVars, taskVars>>

(***************************************************************************)
(* Inputs of the model.                                                    *)
(***************************************************************************)
\* the bytes the segmenter and stripper inputs are made of: ESC, '[', a
\* parameter byte, an intermediate byte, a final byte, a control byte
SegAlphabet == {escapeChar, csiBracket, 49, chSpace, 109, chLF}

RECURSIVE StringsUpTo(_, _)
\* every string over alphabet of length at most n
StringsUpTo(alphabet, n) ==
    IF n = 0 THEN {<<>>}
    ELSE LET shorter == StringsUpTo(alphabet, n - 1)
         IN  shorter \cup {Append(s, b) : s \in shorter, b \in alphabet}

SegInputs == StringsUpTo(SegAlphabet, MaxSegLen)

\* the pieces the lexer and highlighter inputs are concatenated from
Pieces == {
    <<115,101,116,32>>,                                  \* "set "
    <<100,101,115,99,114,105,112,116,105,111,110,32>>,   \* "description "
    <<102,111,111>>,                                     \* "foo"
    <<chSpace>>,
    <<59>>,                                              \* ";"
    <<chLF>>,
    <<117,64,104,62>>,                                   \* "u@h>"
    <<escapeChar, csiBracket, 75>>,                      \* ESC "[K"
    <<escapeChar>>
}

RECURSIVE PiecesUpTo(_)
\* every concatenation of at most n pieces
PiecesUpTo(n) ==
    IF n = 0 THEN {<<>>}
    ELSE LET shorter == PiecesUpTo(n - 1)
         IN  shorter \cup {s \o p : s \in shorter, p \in Pieces}

Inputs == PiecesUpTo(MaxPieces)

NoCall == [op |-> "none", input |-> <<>>, enabled |-> TRUE, theme |-> "", result |-> <<>>]

IdleSeg == segInput = <<>> /\ segPc = "idle" /\ segments = <<>>
           /\ stripOnce = <<>> /\ stripTwice = <<>>

IdleLex == lex = New(<<>>) /\ lexPc = "idle" /\ tokens = <<>>

IdleHl  == h = NewHighlighter("tokyonight") /\ hCall = NoCall

IdleCall == hCall = NoCall

NoRead == [n |-> 0, err |-> FALSE]

IdleTerm == /\ termEnabled = TRUE /\ src = <<>> /\ srcPos = 0
            /\ lineBuf = <<>> /\ writes = <<>> /\ termPc = "idle"
            /\ lastRead = NoRead /\ flushed = <<>>

IdleRun == /\ runPc = "idle" /\ defers = <<>> /\ cleanup = <<>> /\ pty = "none"
           /\ sigSub = FALSE /\ sigBuf = 0 /\ sigClosed = FALSE
           /\ sigHandler = "none" /\ raw = "cooked" /\ inRelay = "none"
           /\ doneClosed = FALSE /\ cmd = "none" /\ exitOk = TRUE
           /\ faults = {} /\ misuse = {} /\ runResult = "none"

IdleLock == /\ mu = [writer |-> "none", readers |-> {}] /\ cfg = <<>>
            /\ lk = <<>> /\ lastAccess = <<>>

IdleTask == IdleRun /\ IdleLock

IdleStdin == /\ force = FALSE /\ disabled = FALSE /\ stdinLines = <<>>
             /\ detectedJunOS = FALSE /\ printed = <<>> /\ stdinPc = "idle"

(***************************************************************************)
(* SpecSeg: extractSegments and StripANSI applied to every input.          *)
(***************************************************************************)
SegInit ==
    /\ segInput \in SegInputs
    /\ segPc = "new"
    /\ segments = <<>> /\ stripOnce = <<>> /\ stripTwice = <<>>
    /\ IdleLex /\ IdleHl /\ IdleTerm /\ IdleStdin /\ IdleTask

DoExtractSegments ==
    /\ segPc = "new"
    /\ segments' = extractSegments(segInput)
    /\ segPc' = "segmented"
    /\ UNCHANGED <<segInput, stripOnce, stripTwice, lexVars, hlVars, termVars, stdinVars, taskVars>>

DoStripANSI ==
    /\ segPc \in {"new", "segmented"}
    /\ stripOnce' = StripANSI(segInput)
    /\ segPc' = "stripped"
    /\ UNCHANGED <<segInput, segments, stripTwice, lexVars, hlVars, termVars, stdinVars, taskVars>>

DoStripAgain ==
    /\ segPc = "stripped"
    /\ stripTwice' = StripANSI(stripOnce)
    /\ segPc' = "restripped"
    /\ UNCHANGED <<segInput, segments, stripOnce, lexVars, hlVars, termVars, stdinVars, taskVars>>

SegNext == DoExtractSegments \/ DoStripANSI \/ DoStripAgain

SpecSeg == SegInit /\ [][SegNext]_vars

(***************************************************************************)
(* SpecLexer: one Lexer, from New through Tokenize, one nextToken call per *)
(* step.                                                                   *)
(***************************************************************************)
LexInit ==
    /\ \E s \in Inputs : lex = New(s)
    /\ lexPc = "new"
    /\ tokens = <<>>
    /\ IdleSeg /\ IdleHl /\ IdleTerm /\ IdleStdin /\ IdleTask

\* Lexer.SetParseMode(mode), called before Tokenize
LexSetParseMode ==
    /\ lexPc = "new"
    /\ ~lex.detectedMode
    /\ \E mode \in {"Config", "Show"} : lex' = SetParseMode(lex, mode)
    /\ UNCHANGED <<lexPc, tokens, segVars, hlVars, termVars, stdinVars, taskVars>>

\* Tokenize: the prompt check at its start
LexTokenizeStart ==
    /\ lexPc = "new"
    /\ LET p == tryTokenizePrompt(lex.input)
       IN  IF p.ok
           THEN tokens' = p.tokens /\ lexPc' = "done"
           ELSE tokens' = <<>> /\ lexPc' = "scan"
    /\ UNCHANGED <<lex, segVars, hlVars, termVars, stdinVars, taskVars>>

\* the lexer and the tokens after one turn of the scan loop
LexStepped(st) == lex' = st.lex /\ tokens' = st.tokens

\* Tokenize: one turn of the scan loop
LexNextToken ==
    /\ lexPc = "scan"
    /\ lex.pos < Len(lex.input)
    /\ LexStepped(TokenizeStep(nextToken(lex), tokens))
    /\ UNCHANGED <<lexPc, segVars, hlVars, termVars, stdinVars, taskVars>>

\* Tokenize: the scan loop ends and the tokens are returned
LexReturn ==
    /\ lexPc = "scan"
    /\ lex.pos >= Len(lex.input)
    /\ lexPc' = "done"
    /\ UNCHANGED <<lex, tokens, segVars, hlVars, termVars, stdinVars, taskVars>>

LexNext == LexSetParseMode \/ LexTokenizeStart \/ LexNextToken \/ LexReturn

SpecLexer == LexInit /\ [][LexNext]_vars


(***************************************************************************)
(* SpecHL: one Highlighter, its setters, and one call of each of its       *)
(* highlighting entry points.                                              *)
(***************************************************************************)
HlInit ==
    /\ \E theme \in ThemeNames : h = NewHighlighter(theme)
    /\ hCall = NoCall
    /\ IdleSeg /\ IdleLex /\ IdleTerm /\ IdleStdin /\ IdleTask

\* Highlighter.Enable()
HlEnable ==
    /\ h' = [h EXCEPT !.enabled = TRUE]
    /\ UNCHANGED <<hCall, segVars, lexVars, termVars, stdinVars, taskVars>>

\* Highlighter.Disable()
HlDisable ==
    /\ h' = [h EXCEPT !.enabled = FALSE]
    /\ UNCHANGED <<hCall, segVars, lexVars, termVars, stdinVars, taskVars>>

\* Highlighter.Toggle()
HlToggle ==
    /\ h' = [h EXCEPT !.enabled = ~h.enabled]
    /\ UNCHANGED <<hCall, segVars, lexVars, termVars, stdinVars, taskVars>>

\* Highlighter.SetTheme(theme)
HlSetTheme ==
    /\ \E theme \in ThemeNames : h' = [h EXCEPT !.theme = theme]
    /\ UNCHANGED <<hCall, segVars, lexVars, termVars, stdinVars, taskVars>>

\* the record of a call on h
Call(op, input, result) ==
    [op |-> op, input |-> input, enabled |-> h.enabled, theme |-> h.theme,
     result |-> result]

\* a call of Highlighter.Highlight(input)
HlHighlight ==
    /\ hCall.op = "none"
    /\ \E input \in Inputs : hCall' = Call("Highlight", input, Highlight(h, input))
    /\ UNCHANGED <<h, segVars, lexVars, termVars, stdinVars, taskVars>>

\* a call of Highlighter.HighlightForced(input)
HlHighlightForced ==
    /\ hCall.op = "none"
    /\ \E input \in Inputs :
           hCall' = Call("HighlightForced", input, HighlightForced(h, input))
    /\ UNCHANGED <<h, segVars, lexVars, termVars, stdinVars, taskVars>>

\* a call of Highlighter.HighlightShowOutput(input)
HlHighlightShowOutput ==
    /\ hCall.op = "none"
    /\ \E input \in Inputs :
           hCall' = Call("HighlightShowOutput", input, HighlightShowOutput(h, input))
    /\ UNCHANGED <<h, segVars, lexVars, termVars, stdinVars, taskVars>>

HlNext ==
    \/ HlEnable \/ HlDisable \/ HlToggle \/ HlSetTheme
    \/ HlHighlight \/ HlHighlightForced \/ HlHighlightShowOutput

SpecHL == HlInit /\ [][HlNext]_vars


(***************************************************************************)
(* SpecTerm: a Terminal set up as runWithTerminal does, then the read loop *)
(* of processOutput, one Read per step.                                    *)
(***************************************************************************)
\* the bytes of the relayed streams: ESC, '[', the final byte 'K', a letter
\* and the newline
TermAlphabet == {escapeChar, csiBracket, 75, 97, chLF}

TermStreams == StringsUpTo(TermAlphabet, MaxStreamLen)

\* terminal.New(name, args...)
TermInit ==
    /\ termEnabled = TRUE
    /\ h = NewHighlighter("tokyonight")
    /\ src \in TermStreams
    /\ srcPos = 0
    /\ lineBuf = <<>>
    /\ writes = <<>>
    /\ lastRead = NoRead
    /\ flushed = <<>>
    /\ termPc = "new"
    /\ IdleCall /\ IdleSeg /\ IdleLex /\ IdleStdin /\ IdleTask

\* Terminal.SetTheme(theme), before Run
TermSetTheme ==
    /\ termPc = "new"
    /\ \E theme \in ThemeNames : h' = [h EXCEPT !.theme = theme]
    /\ UNCHANGED <<hCall, termVars, segVars, lexVars, stdinVars, taskVars>>

\* Terminal.SetEnabled(enabled), before Run
TermSetEnabled ==
    /\ termPc = "new"
    /\ \E enabled \in BOOLEAN : termEnabled' = enabled
    /\ UNCHANGED <<src, srcPos, lineBuf, writes, lastRead, flushed, termPc, hlVars, segVars, lexVars, stdinVars, taskVars>>

\* Terminal.Run() up to the start of processOutput
TermRun ==
    /\ termPc = "new"
    /\ termPc' = "relay"
    /\ UNCHANGED <<termEnabled, src, srcPos, lineBuf, writes, lastRead, flushed, hlVars, segVars, lexVars, stdinVars, taskVars>>

\* the line buffer and the writes after one turn of the read loop
TermRelayed(st) == lineBuf' = st.lineBuf /\ writes' = st.writes

\* one turn of the read loop of processOutput: Read returns n bytes and err;
\* an error comes with the last bytes of src or after them
TermRead ==
    /\ termPc = "relay"
    /\ \E n \in 0..(Len(src) - srcPos), err \in BOOLEAN :
           /\ n <= readBufferSize
           /\ err => srcPos + n = Len(src)
           /\ TermRelayed(ProcessRead(termEnabled, h, Slice(src, srcPos, srcPos + n),
                                      [lineBuf |-> lineBuf, writes |-> writes]))
           /\ srcPos' = srcPos + n
           /\ lastRead' = [n |-> n, err |-> err]
           /\ flushed' = Flushes(Slice(src, srcPos, srcPos + n), lineBuf)
           /\ termPc' = IF err THEN "done" ELSE "relay"
    /\ UNCHANGED <<termEnabled, src, hlVars, segVars, lexVars, stdinVars, taskVars>>

TermNext == TermSetTheme \/ TermSetEnabled \/ TermRun \/ TermRead

SpecTerm == TermInit /\ [][TermNext]_vars


(***************************************************************************)
(* SpecStdin: highlightStdin (cmd/jink main.go), one ReadString per step.  *)
(***************************************************************************)
\* the complete lines of the filtered streams; the last is "set foo\n" as
\* the tokyonight theme colours it
StdinLineSet == {
    <<102,111,111,chLF>>,                               \* "foo\n"
    <<115,101,116,32,102,111,111,chLF>>,                \* "set foo\n"
    <<117,64,104,62,chLF>>,                             \* "u@h>\n"
    <<escapeChar,csiBracket,75,102,111,111,chLF>>,      \* ESC "[Kfoo\n"
    <<chLF>>,
    highlightTokensCleaned("tokyonight", <<115,101,116,32,102,111,111,chLF>>)
}

\* what may follow the last newline of a stream
StdinTails == { <<102,111,111>>, <<115,101,116,32,102,111,111>> }

RECURSIVE LinesUpTo(_)
\* every sequence of at most n complete lines
LinesUpTo(n) ==
    IF n = 0 THEN {<<>>}
    ELSE LET shorter == LinesUpTo(n - 1)
         IN  shorter \cup {Append(ls, l) : ls \in shorter, l \in StdinLineSet}

\* the streams as ReadString('\n') cuts them: complete lines, then the bytes
\* after the last newline if there are any
StdinStreams ==
    LinesUpTo(MaxLines) \cup {Append(ls, t) : ls \in LinesUpTo(MaxLines), t \in StdinTails}

\* highlightStdin(theme, disabled, force) is called
StdinInit ==
    /\ force \in BOOLEAN
    /\ disabled \in BOOLEAN
    /\ \E theme \in ThemeNames : h = NewHighlighter(theme)
    /\ stdinLines \in StdinStreams
    /\ detectedJunOS = FALSE
    /\ printed = <<>>
    /\ stdinPc = "start"
    /\ IdleCall /\ IdleSeg /\ IdleLex /\ IdleTerm /\ IdleTask

\* stdin is a terminal: the usage text is shown and nil returned
StdinUsage ==
    /\ stdinPc = "start"
    /\ stdinPc' = "done"
    /\ UNCHANGED <<force, disabled, stdinLines, detectedJunOS, printed,
                   hlVars, segVars, lexVars, termVars, taskVars>>

\* stdin is a pipe: the reader is set up and detectedJunOS := force
StdinOpen ==
    /\ stdinPc = "start"
    /\ detectedJunOS' = force
    /\ stdinPc' = "reading"
    /\ UNCHANGED <<force, disabled, stdinLines, printed, hlVars, segVars, lexVars, termVars, taskVars>>

\* what the loop body prints for line
StdinOutput(hl, line) ==
    IF disabled THEN line
    ELSE IF detectedJunOS \/ force THEN HighlightForced(hl, line)
    ELSE Highlight(hl, line)

\* the loop body on a line of len(line) > 0, out being what it prints
StdinPrinted(line, out) ==
    /\ detectedJunOS' = IF ~disabled /\ ~(detectedJunOS \/ force) /\ out # line
                        THEN TRUE ELSE detectedJunOS
    /\ printed' = Append(printed, [line |-> line, out |-> out, before |-> detectedJunOS,
                                   after |-> detectedJunOS'])

\* one turn of the loop: ReadString returns the next line, with a nil error
\* when it ends in a newline, with io.EOF or another error when it does not
StdinReadLine ==
    /\ stdinPc = "reading"
    /\ stdinLines # <<>>
    /\ StdinPrinted(Head(stdinLines), StdinOutput(h, Head(stdinLines)))
    /\ stdinLines' = Tail(stdinLines)
    /\ IF HasSuffix(Head(stdinLines), <<chLF>>)
       THEN stdinPc' = "reading"
       ELSE stdinPc' \in {"done", "failed"}
    /\ UNCHANGED <<force, disabled, hlVars, segVars, lexVars, termVars, taskVars>>

\* one turn of the loop: ReadString returns no bytes and io.EOF (nil is
\* returned) or another error (it is returned)
StdinReadEnd ==
    /\ stdinPc = "reading"
    /\ \/ stdinLines = <<>> /\ stdinPc' = "done"
       \/ stdinPc' = "failed"
    /\ UNCHANGED <<force, disabled, stdinLines, detectedJunOS, printed,
                   hlVars, segVars, lexVars, termVars, taskVars>>

StdinNext == StdinUsage \/ StdinOpen \/ StdinReadLine \/ StdinReadEnd

SpecStdin == StdinInit /\ [][StdinNext]_vars


(***************************************************************************)
(* SpecRun: Terminal.Run with the tasks it starts (the resize handler, the *)
(* input relay, the output relay), the subprocess and the signals of the   *)
(* environment.  Every error the code only logs is recorded in faults.     *)
(***************************************************************************)
\* the streams the pty delivers in SpecRun
RunStreams == { <<>>, <<97, chLF>>, <<escapeChar, csiBracket, 75, 97>> }

\* the deferred closure that closes the pty (highlighter.go:1144-1148)
PtyCleanup == <<"closePty">>

\* a signal cleanup that closes the channel without waiting for the handler
SignalCleanupNoWait == <<"stop", "closeCh">>

\* the deferred closure of the resize subscription (highlighter.go:1163-1167)
SignalCleanup == <<"stop", "closeCh", "waitSigDone">>

\* the deferred closure that restores the terminal (highlighter.go:1177-1181)
RawCleanup == <<"restore">>

RECURSIVE Unwind(_)
\* the steps of the deferred closures, last deferred first
Unwind(stack) ==
    IF stack = <<>> THEN <<>>
    ELSE stack[Len(stack)] \o Unwind(SubSeq(stack, 1, Len(stack) - 1))

RunInit ==
    /\ runPc = "start"
    /\ defers = <<>>
    /\ cleanup = <<>>
    /\ pty = "none"
    /\ sigSub = FALSE /\ sigBuf = 0 /\ sigClosed = FALSE /\ sigHandler = "none"
    /\ raw = "cooked"
    /\ inRelay = "none"
    /\ doneClosed = FALSE
    /\ cmd = "none" /\ exitOk = TRUE
    /\ faults = {}
    /\ misuse = {}
    /\ runResult = "none"
    /\ termEnabled = TRUE
    /\ h = NewHighlighter("tokyonight")
    /\ src \in RunStreams
    /\ srcPos = 0 /\ lineBuf = <<>> /\ writes = <<>>
    /\ lastRead = NoRead /\ flushed = <<>>
    /\ termPc = "new"
    /\ IdleCall /\ IdleSeg /\ IdleLex /\ IdleStdin /\ IdleLock

\* pty.Start(t.cmd) fails: Run returns the wrapped error
RunStartFails ==
    /\ runPc = "start"
    /\ faults' = faults \cup {"start"}
    /\ runResult' = "startErr"
    /\ runPc' = "returned"
    /\ UNCHANGED <<defers, cleanup, pty, sigSub, sigBuf, sigClosed, sigHandler, raw,
                   inRelay, doneClosed, cmd, exitOk, misuse, termVars, notRun>>

\* pty.Start(t.cmd) succeeds: the subprocess runs, the pty close is deferred
RunStartPty ==
    /\ runPc = "start"
    /\ pty' = "open"
    /\ cmd' = "running"
    /\ defers' = Append(defers, PtyCleanup)
    /\ runPc' = "notify"
    /\ UNCHANGED <<cleanup, sigSub, sigBuf, sigClosed, sigHandler, raw, inRelay,
                   doneClosed, exitOk, faults, misuse, runResult, termVars, notRun>>

\* signal.Notify, the resize handler is started and its cleanup deferred
RunNotify ==
    /\ runPc = "notify"
    /\ sigSub' = TRUE
    /\ sigHandler' = "waiting"
    /\ defers' = Append(defers, SignalCleanup)
    /\ runPc' = "send"
    /\ UNCHANGED <<cleanup, pty, sigBuf, sigClosed, raw, inRelay, doneClosed, cmd,
                   exitOk, faults, misuse, runResult, termVars, notRun>>

\* sigCh <- syscall.SIGWINCH, which waits while the buffer of one is full
RunSendResize ==
    /\ runPc = "send"
    /\ sigBuf < 1
    /\ sigBuf' = sigBuf + 1
    /\ misuse' = IF sigClosed THEN misuse \cup {"sendOnClosed"} ELSE misuse
    /\ runPc' = "makeRaw"
    /\ UNCHANGED <<defers, cleanup, pty, sigSub, sigClosed, sigHandler, raw, inRelay,
                   doneClosed, cmd, exitOk, faults, runResult, termVars, notRun>>

\* term.MakeRaw fails: Run returns the wrapped error through its deferred
\* closures
RunMakeRawFails ==
    /\ runPc = "makeRaw"
    /\ faults' = faults \cup {"raw"}
    /\ runResult' = "rawErr"
    /\ cleanup' = Unwind(defers)
    /\ runPc' = "unwind"
    /\ UNCHANGED <<defers, pty, sigSub, sigBuf, sigClosed, sigHandler, raw, inRelay,
                   doneClosed, cmd, exitOk, misuse, termVars, notRun>>

\* term.MakeRaw succeeds and the restore is deferred
RunMakeRaw ==
    /\ runPc = "makeRaw"
    /\ raw' = "raw"
    /\ defers' = Append(defers, RawCleanup)
    /\ runPc' = "spawn"
    /\ UNCHANGED <<cleanup, pty, sigSub, sigBuf, sigClosed, sigHandler, inRelay,
                   doneClosed, cmd, exitOk, faults, misuse, runResult, termVars, notRun>>

\* the input relay and the output relay are started
RunSpawn ==
    /\ runPc = "spawn"
    /\ inRelay' = "reading"
    /\ termPc' = "relay"
    /\ runPc' = "waitDone"
    /\ UNCHANGED <<defers, cleanup, pty, sigSub, sigBuf, sigClosed, sigHandler, raw,
                   doneClosed, cmd, exitOk, faults, misuse, runResult,
                   termEnabled, src, srcPos, lineBuf, writes, lastRead, flushed, notRun>>

\* a Run that does not wait for the output relay
RunWaitDoneSkipped ==
    /\ runPc = "waitDone"
    /\ runPc' = "waitCmd"
    /\ UNCHANGED <<defers, cleanup, pty, sigSub, sigBuf, sigClosed, sigHandler, raw,
                   inRelay, doneClosed, cmd, exitOk, faults, misuse, runResult,
                   termVars, notRun>>

\* <-done: Run waits for the output relay to end
RunWaitDone ==
    /\ runPc = "waitDone"
    /\ doneClosed
    /\ runPc' = "waitCmd"
    /\ UNCHANGED <<defers, cleanup, pty, sigSub, sigBuf, sigClosed, sigHandler, raw,
                   inRelay, doneClosed, cmd, exitOk, faults, misuse, runResult,
                   termVars, notRun>>

\* a Run whose result also reports the failures that are only logged
RunWaitCmdReportsFaults ==
    /\ runPc = "waitCmd"
    /\ cmd = "exited"
    /\ runResult' = IF exitOk /\ faults = {} THEN "nil" ELSE "waitErr"
    /\ cleanup' = Unwind(defers)
    /\ runPc' = "unwind"
    /\ UNCHANGED <<defers, pty, sigSub, sigBuf, sigClosed, sigHandler, raw, inRelay,
                   doneClosed, cmd, exitOk, faults, misuse, termVars, notRun>>

\* t.cmd.Wait() returns once the subprocess has exited, and Run returns nil
\* or the wrapped error through its deferred closures
RunWaitCmd ==
    /\ runPc = "waitCmd"
    /\ cmd = "exited"
    /\ runResult' = IF exitOk THEN "nil" ELSE "waitErr"
    /\ cleanup' = Unwind(defers)
    /\ runPc' = "unwind"
    /\ UNCHANGED <<defers, pty, sigSub, sigBuf, sigClosed, sigHandler, raw, inRelay,
                   doneClosed, cmd, exitOk, faults, misuse, termVars, notRun>>

\* one step of a deferred closure.  Restore and Close may fail, which is
\* only logged.
RunCleanupStep ==
    /\ runPc = "unwind"
    /\ cleanup # <<>>
    /\ cleanup' = Tail(cleanup)
    /\ \/ /\ Head(cleanup) = "restore"
          /\ raw' = "restored"
          /\ \E failed \in BOOLEAN :
                 faults' = IF failed THEN faults \cup {"restore"} ELSE faults
          /\ UNCHANGED <<sigSub, sigClosed, pty>>
       \/ /\ Head(cleanup) = "stop"
          /\ sigSub' = FALSE
          /\ UNCHANGED <<raw, faults, sigClosed, pty>>
       \/ /\ Head(cleanup) = "closeCh"
          /\ sigClosed' = TRUE
          /\ UNCHANGED <<raw, faults, sigSub, pty>>
       \/ /\ Head(cleanup) = "waitSigDone"
          /\ sigHandler = "exited"
          /\ UNCHANGED <<raw, faults, sigSub, sigClosed, pty>>
       \/ /\ Head(cleanup) = "closePty"
          /\ pty' = "closed"
          /\ \E failed \in BOOLEAN :
                 faults' = IF failed THEN faults \cup {"close"} ELSE faults
          /\ UNCHANGED <<raw, sigSub, sigClosed>>
    /\ UNCHANGED <<runPc, defers, sigBuf, sigHandler, inRelay, doneClosed, cmd,
                   exitOk, misuse, runResult, termVars, notRun>>

\* the deferred closures have run: Run returns
RunReturn ==
    /\ runPc = "unwind"
    /\ cleanup = <<>>
    /\ runPc' = "returned"
    /\ UNCHANGED <<defers, cleanup, pty, sigSub, sigBuf, sigClosed, sigHandler, raw,
                   inRelay, doneClosed, cmd, exitOk, faults, misuse, runResult,
                   termVars, notRun>>

\* the environment delivers SIGWINCH to the subscribed channel (dropped when
\* the buffer is full)
SigDeliver ==
    /\ sigSub
    /\ sigBuf < 1
    /\ sigBuf' = sigBuf + 1
    /\ misuse' = IF sigClosed THEN misuse \cup {"sendOnClosed"} ELSE misuse
    /\ UNCHANGED <<runPc, defers, cleanup, pty, sigSub, sigClosed, sigHandler, raw,
                   inRelay, doneClosed, cmd, exitOk, faults, runResult, termVars, notRun>>

\* the resize handler receives from sigCh
HandlerReceive ==
    /\ sigHandler = "waiting"
    /\ sigBuf > 0
    /\ sigBuf' = sigBuf - 1
    /\ sigHandler' = "resizing"
    /\ UNCHANGED <<runPc, defers, cleanup, pty, sigSub, sigClosed, raw, inRelay,
                   doneClosed, cmd, exitOk, faults, misuse, runResult, termVars, notRun>>

\* pty.InheritSize(os.Stdin, ptmx): uses the pty handle, a failure is only
\* logged
HandlerResize ==
    /\ sigHandler = "resizing"
    /\ sigHandler' = "waiting"
    /\ misuse' = IF pty = "closed" THEN misuse \cup {"resizeOnClosedPty"} ELSE misuse
    /\ \E failed \in BOOLEAN :
           faults' = IF failed \/ pty = "closed" THEN faults \cup {"resize"} ELSE faults
    /\ UNCHANGED <<runPc, defers, cleanup, pty, sigSub, sigBuf, sigClosed, raw, inRelay,
                   doneClosed, cmd, exitOk, runResult, termVars, notRun>>

\* the range over sigCh ends when the channel is closed and drained, and the
\* deferred close(sigDone) runs
HandlerExit ==
    /\ sigHandler = "waiting"
    /\ sigBuf = 0
    /\ sigClosed
    /\ sigHandler' = "exited"
    /\ UNCHANGED <<runPc, defers, cleanup, pty, sigSub, sigBuf, sigClosed, raw, inRelay,
                   doneClosed, cmd, exitOk, faults, misuse, runResult, termVars, notRun>>

\* the subprocess exits, cleanly or not
CmdExit ==
    /\ cmd = "running"
    /\ cmd' = "exited"
    /\ exitOk' \in BOOLEAN
    /\ UNCHANGED <<runPc, defers, cleanup, pty, sigSub, sigBuf, sigClosed, sigHandler,
                   raw, inRelay, doneClosed, faults, misuse, runResult, termVars, notRun>>

\* io.Copy reads from os.Stdin: data, or the end of the copy (end of input
\* or a read error, which is only logged)
InputRead ==
    /\ inRelay = "reading"
    /\ \/ /\ inRelay' = "writing"
          /\ UNCHANGED faults
       \/ /\ inRelay' = "ended"
          /\ \E failed \in BOOLEAN :
                 faults' = IF failed THEN faults \cup {"copy"} ELSE faults
    /\ misuse' = IF runPc = "returned" THEN misuse \cup {"stdinReadAfterReturn"}
                 ELSE misuse
    /\ UNCHANGED <<runPc, defers, cleanup, pty, sigSub, sigBuf, sigClosed, sigHandler,
                   raw, doneClosed, cmd, exitOk, runResult, termVars, notRun>>

\* io.Copy writes what it read to the pty; a failed write ends the copy and
\* is only logged
InputWrite ==
    /\ inRelay = "writing"
    /\ \E failed \in BOOLEAN :
           IF failed \/ pty = "closed"
           THEN /\ inRelay' = "ended"
                /\ faults' = faults \cup {"copy"}
           ELSE /\ inRelay' = "reading"
                /\ UNCHANGED faults
    /\ misuse' = IF pty = "closed" THEN misuse \cup {"inputOnClosedPty"} ELSE misuse
    /\ UNCHANGED <<runPc, defers, cleanup, pty, sigSub, sigBuf, sigClosed, sigHandler,
                   raw, doneClosed, cmd, exitOk, runResult, termVars, notRun>>

\* one turn of processOutput's loop inside Run: as TermRead, and a failed
\* write to os.Stdout is only logged
OutputRead ==
    /\ termPc = "relay"
    /\ \E n \in 0..(Len(src) - srcPos), err \in BOOLEAN :
        /\ n > 0 \/ err
        /\ n <= readBufferSize
        /\ srcPos + n = Len(src) => err
        /\ lastRead' = [n |-> n, err |-> err]
        /\ srcPos' = srcPos + n
        /\ flushed' = Flushes(Slice(src, srcPos, srcPos + n), lineBuf)
        /\ TermRelayed(ProcessRead(termEnabled, h, Slice(src, srcPos, srcPos + n),
                                   [lineBuf |-> lineBuf, writes |-> writes]))
        /\ termPc' = IF err THEN "done" ELSE "relay"
        /\ misuse' = IF pty = "closed" THEN misuse \cup {"outputOnClosedPty"} ELSE misuse
        /\ \E failed \in BOOLEAN :
               faults' = IF failed /\ n > 0 THEN faults \cup {"write"} ELSE faults
    /\ UNCHANGED <<runPc, defers, cleanup, pty, sigSub, sigBuf, sigClosed, sigHandler,
                   raw, inRelay, doneClosed, cmd, exitOk, runResult,
                   termEnabled, src, notRun>>

\* close(done) after processOutput returned
OutputDone ==
    /\ termPc = "done"
    /\ ~doneClosed
    /\ doneClosed' = TRUE
    /\ UNCHANGED <<runPc, defers, cleanup, pty, sigSub, sigBuf, sigClosed, sigHandler,
                   raw, inRelay, cmd, exitOk, faults, misuse, runResult, termVars, notRun>>

RunNext ==
    \/ RunStartFails \/ RunStartPty \/ RunNotify \/ RunSendResize
    \/ RunMakeRawFails \/ RunMakeRaw \/ RunSpawn \/ RunWaitDone \/ RunWaitCmd
    \/ RunCleanupStep \/ RunReturn
    \/ SigDeliver \/ HandlerReceive \/ HandlerResize \/ HandlerExit
    \/ CmdExit \/ InputRead \/ InputWrite \/ OutputRead \/ OutputDone

SpecRun == RunInit /\ [][RunNext]_vars


(***************************************************************************)
(* SpecLock: the fields of the Highlighter and of the Terminal as the      *)
(* tasks of a running program reach them.  The output relay calls          *)
(* writeOutput line by line while other tasks call the setters; every      *)
(* statement between two operations on h.mu is one step.                   *)
(***************************************************************************)
\* the tasks that call the setters while the relay runs
CfgTasks == {"ui1", "ui2"}

\* the line buffers writeOutput is called with
LockInputs == { <<>>, <<97, escapeChar, csiBracket, 75, 97>> }

\* the setters of the Highlighter, which take h.mu
LockedSetters == {"SetTheme", "Enable", "Disable", "Toggle"}

\* whether task t holds h.mu, for writing or for reading
Holds(t) == mu.writer = t \/ t \in mu.readers

\* an access to a shared field
Access(t, field, kind) ==
    [task |-> t, field |-> field, kind |-> kind, locked |-> Holds(t)]

NoAccess == [task |-> "none", field |-> "none", kind |-> "none", locked |-> TRUE]

CfgIdle == [pc |-> "idle", op |-> "none", theme |-> "", local |-> FALSE, ret |-> FALSE]

LkIdle == [pc |-> "idle", input |-> <<>>, segs |-> <<>>, toks |-> <<>>, out |-> <<>>,
           enabled |-> FALSE, theme |-> "", themes |-> {}]

LockInit ==
    /\ mu = [writer |-> "none", readers |-> {}]
    /\ cfg = [t \in CfgTasks |-> CfgIdle]
    /\ lk = LkIdle
    /\ lastAccess = NoAccess
    /\ IdleHl /\ IdleTerm /\ IdleSeg /\ IdleLex /\ IdleStdin /\ IdleRun

\* a task calls SetTheme(theme), Enable(), Disable() or Toggle()
CfgCall(t) ==
    /\ cfg[t].pc = "idle"
    /\ \E op \in LockedSetters, theme \in ThemeNames :
           /\ op # "SetTheme" => theme = "tokyonight"
           /\ cfg' = [cfg EXCEPT ![t] = [CfgIdle EXCEPT !.pc = "lock", !.op = op,
                                                       !.theme = theme]]
    /\ UNCHANGED <<mu, lk, lastAccess, hlVars, termVars, notLock>>

\* a setter that goes on without taking h.mu
CfgLockSkipped(t) ==
    /\ cfg[t].pc = "lock"
    /\ cfg' = [cfg EXCEPT ![t].pc = IF cfg[t].op = "Toggle" THEN "load" ELSE "store"]
    /\ UNCHANGED <<mu, lk, lastAccess, hlVars, termVars, notLock>>

\* h.mu.Lock(): waits while another task holds the lock
CfgLock(t) ==
    /\ cfg[t].pc = "lock"
    /\ mu.writer = "none" /\ mu.readers = {}
    /\ mu' = [mu EXCEPT !.writer = t]
    /\ cfg' = [cfg EXCEPT ![t].pc = IF cfg[t].op = "Toggle" THEN "load" ELSE "store"]
    /\ UNCHANGED <<lk, lastAccess, hlVars, termVars, notLock>>

\* Toggle reads h.enabled
CfgLoad(t) ==
    /\ cfg[t].pc = "load"
    /\ cfg' = [cfg EXCEPT ![t].local = h.enabled, ![t].pc = "store"]
    /\ lastAccess' = Access(t, "h.enabled", "read")
    /\ UNCHANGED <<mu, lk, hlVars, termVars, notLock>>

\* the assignment of the setter; Toggle returns the value it stored
CfgStore(t) ==
    /\ cfg[t].pc = "store"
    /\ \/ /\ cfg[t].op = "SetTheme"
          /\ h' = [h EXCEPT !.theme = cfg[t].theme]
          /\ lastAccess' = Access(t, "h.theme", "write")
          /\ cfg' = [cfg EXCEPT ![t].pc = "unlock"]
       \/ /\ cfg[t].op \in {"Enable", "Disable"}
          /\ h' = [h EXCEPT !.enabled = (cfg[t].op = "Enable")]
          /\ lastAccess' = Access(t, "h.enabled", "write")
          /\ cfg' = [cfg EXCEPT ![t].pc = "unlock"]
       \/ /\ cfg[t].op = "Toggle"
          /\ h' = [h EXCEPT !.enabled = ~cfg[t].local]
          /\ lastAccess' = Access(t, "h.enabled", "write")
          /\ cfg' = [cfg EXCEPT ![t].pc = "unlock", ![t].ret = ~cfg[t].local]
    /\ UNCHANGED <<mu, lk, hCall, termVars, notLock>>

\* the deferred h.mu.Unlock() and the return of the setter
CfgUnlock(t) ==
    /\ cfg[t].pc = "unlock"
    /\ mu' = [mu EXCEPT !.writer = "none"]
    /\ cfg' = [cfg EXCEPT ![t].pc = "idle"]
    /\ UNCHANGED <<lk, lastAccess, hlVars, termVars, notLock>>

\* Terminal.SetEnabled(enabled): assigns t.enabled
CfgSetEnabled(t) ==
    /\ cfg[t].pc = "idle"
    /\ \E enabled \in BOOLEAN : termEnabled' = enabled
    /\ lastAccess' = Access(t, "t.enabled", "write")
    /\ UNCHANGED <<mu, cfg, lk, hlVars, src, srcPos, lineBuf, writes, lastRead,
                   flushed, termPc, notLock>>

\* writeOutput(w, data) begins: it reads t.enabled
LkWriteOutput ==
    /\ lk.pc = "idle"
    /\ \E data \in LockInputs :
           lk' = [LkIdle EXCEPT !.input = data,
                                !.out = IF termEnabled THEN <<>> ELSE data,
                                !.pc = IF termEnabled THEN "enRLock" ELSE "write"]
    /\ lastAccess' = Access("relay", "t.enabled", "read")
    /\ UNCHANGED <<mu, cfg, hlVars, termVars, notLock>>

\* h.mu.RLock() in IsEnabled and in renderTokens: waits while a task holds
\* the lock for writing
LkRLock ==
    /\ lk.pc \in {"enRLock", "thRLock"}
    /\ mu.writer = "none"
    /\ mu' = [mu EXCEPT !.readers = @ \cup {"relay"}]
    /\ lk' = [lk EXCEPT !.pc = IF lk.pc = "enRLock" THEN "enRead" ELSE "thRead"]
    /\ UNCHANGED <<cfg, lastAccess, hlVars, termVars, notLock>>

\* IsEnabled reads h.enabled
LkReadEnabled ==
    /\ lk.pc = "enRead"
    /\ lk' = [lk EXCEPT !.enabled = h.enabled, !.pc = "enRUnlock"]
    /\ lastAccess' = Access("relay", "h.enabled", "read")
    /\ UNCHANGED <<mu, cfg, hlVars, termVars, notLock>>

\* renderTokens reads h.theme
LkReadTheme ==
    /\ lk.pc = "thRead"
    /\ lk' = [lk EXCEPT !.theme = h.theme, !.themes = @ \cup {h.theme},
                        !.pc = "thRUnlock"]
    /\ lastAccess' = Access("relay", "h.theme", "read")
    /\ UNCHANGED <<mu, cfg, hlVars, termVars, notLock>>

\* h.mu.RUnlock() in IsEnabled (then HighlightForced decides) and in
\* renderTokens
LkRUnlock ==
    /\ lk.pc \in {"enRUnlock", "thRUnlock"}
    /\ mu' = [mu EXCEPT !.readers = @ \ {"relay"}]
    /\ lk' = IF lk.pc = "thRUnlock" THEN [lk EXCEPT !.pc = "render"]
             ELSE IF ~lk.enabled \/ lk.input = <<>>
                  THEN [lk EXCEPT !.out = lk.input, !.pc = "write"]
                  ELSE [lk EXCEPT !.segs = extractSegments(lk.input), !.pc = "segment"]
    /\ UNCHANGED <<cfg, lastAccess, hlVars, termVars, notLock>>

\* one turn of the loop of highlightTokens: an escape segment is copied, a
\* text segment is tokenized
LkSegment ==
    /\ lk.pc = "segment"
    /\ lk' = IF lk.segs = <<>> THEN [lk EXCEPT !.pc = "write"]
             ELSE IF Head(lk.segs).isEscape
                  THEN [lk EXCEPT !.out = @ \o Head(lk.segs).text, !.segs = Tail(@)]
                  ELSE [lk EXCEPT !.toks = Tokenize(New(Head(lk.segs).text)),
                                  !.pc = "thRLock"]
    /\ UNCHANGED <<mu, cfg, lastAccess, hlVars, termVars, notLock>>

\* the loop of renderTokens with the theme it read
LkRender ==
    /\ lk.pc = "render"
    /\ lk' = [lk EXCEPT !.out = @ \o renderTokens(lk.theme, lk.toks),
                        !.toks = <<>>, !.segs = Tail(@), !.pc = "segment"]
    /\ UNCHANGED <<mu, cfg, lastAccess, hlVars, termVars, notLock>>

\* w.Write([]byte(output))
LkWrite ==
    /\ lk.pc = "write"
    /\ lk' = [lk EXCEPT !.pc = "idle"]
    /\ UNCHANGED <<mu, cfg, lastAccess, hlVars, termVars, notLock>>

LockNext ==
    \/ \E t \in CfgTasks : \/ CfgCall(t) \/ CfgLock(t) \/ CfgLoad(t) \/ CfgStore(t)
                           \/ CfgUnlock(t) \/ CfgSetEnabled(t)
    \/ LkWriteOutput \/ LkRLock \/ LkReadEnabled \/ LkReadTheme \/ LkRUnlock
    \/ LkSegment \/ LkRender \/ LkWrite

SpecLock == LockInit /\ [][LockNext]_vars


(***************************************************************************)
(* SpecWords: Tokenize on lines of words, in Auto mode and after           *)
(* SetParseMode; the steps are those of SpecLexer.                         *)
(***************************************************************************)
\* how many words a line holds at most
MaxWords == 2

\* words for the branches of classifyWord: states, AS numbers, the shared
\* patterns and their overlaps, members of several keyword sets, and a
\* semicolon
WordSet == {
    <<117,112>>,                                   \* up
    <<65,83,54,53,48,48,48>>,                      \* AS65000
    <<97,115,49>>,                                 \* as1
    <<97,83>>,                                     \* aS
    <<48,48,58,49,49,58,50,50,58,51,51,58,52,52,58,53,53>>, \* 00:11:22:33:44:55
    <<54,53,48,48,48,58,49,48,48>>,                \* 65000:100
    <<49,58,49,49>>,                               \* 1:11
    <<58,58,49>>,                                  \* ::1
    <<97,58,58,47,54,52>>,                         \* a::/64
    <<103,101,45,48,47,48,47,48>>,                 \* ge-0/0/0
    <<49,46,49,46,49,46,49>>,                      \* 1.1.1.1
    <<49,46,49,46,49,46,49,47,56>>,                \* 1.1.1.1/8
    <<49,48,48>>,                                  \* 100
    <<102,111,111>>,                               \* foo
    <<117,110,105,116>>,                           \* unit
    <<85,78,73,84>>,                               \* UNIT
    <<100,101,115,99,114,105,112,116,105,111,110>>, \* description
    <<115,115,104>>,                               \* ssh
    <<101,118,112,110>>,                           \* evpn
    <<97,99,99,101,115,115>>,                      \* access
    <<115,121,115,108,111,103>>,                   \* syslog
    <<108,97,99,112>>,                             \* lacp
    <<100,105,115,99,97,114,100>>,                 \* discard
    <<50,119,97,121>>,                             \* 2way
    <<105,100,108,101>>,                           \* idle
    <<115,101,116>>,                               \* set
    <<59>>                                         \* ;
}

RECURSIVE WordLines(_)
\* the lines of at most n words of WordSet, one space between two words
WordLines(n) ==
    IF n <= 1 THEN WordSet
    ELSE LET shorter == WordLines(n - 1)
         IN  shorter \cup {s \o <<chSpace>> \o w : s \in shorter, w \in WordSet}

\* every word of the keyword tables, alone
TableWords ==
    commands \cup sections \cup protocols \cup actions \cup keywords
    \cup statesGood \cup statesBad \cup statesWarning \cup statesNeutral
    \cup columnHeaders

WordInputs == TableWords \cup WordLines(MaxWords)

WordsInit ==
    /\ \E s \in WordInputs : lex = New(s)
    /\ lexPc = "new"
    /\ tokens = <<>>
    /\ IdleSeg /\ IdleHl /\ IdleTerm /\ IdleStdin /\ IdleTask

SpecWords == WordsInit /\ [][LexNext]_vars


(***************************************************************************)
(* SpecDetect: detectParseMode applied to inputs around the sample size.   *)
(***************************************************************************)
\* how many pieces follow the padding at most
MaxDetectPieces == 2

\* how far before the sample size the padding may end
MaxPadGap == 12

\* pieces that score: "2way idle ", "idle ", "set ;", "a  b  c", "{"
DetectPieces == {
    <<50,119,97,121,32,105,100,108,101,32>>,
    <<105,100,108,101,32>>,
    <<115,101,116,32,59>>,
    <<97,32,32,98,32,32,99>>,
    <<123>>
}

RECURSIVE DetectTails(_)
\* every concatenation of at most n pieces
DetectTails(n) ==
    IF n = 0 THEN {<<>>}
    ELSE LET shorter == DetectTails(n - 1)
         IN  shorter \cup {s \o p : s \in shorter, p \in DetectPieces}

\* n bytes "x"
Pad(n) == [i \in 1..n |-> 120]

\* the lengths of the padding: none, or up to the sample size
PadLens == {0} \cup {parseModeDetectionSampleSize - k : k \in 0..MaxPadGap}

DetectInputs == {Pad(n) \o t : n \in PadLens, t \in DetectTails(MaxDetectPieces)}

DetectInit ==
    /\ \E s \in DetectInputs : lex = New(s)
    /\ lexPc = "new"
    /\ tokens = <<>>
    /\ IdleSeg /\ IdleHl /\ IdleTerm /\ IdleStdin /\ IdleTask

\* the first two statements of classifyWord on an Auto-mode lexer
DoDetectParseMode ==
    /\ lexPc = "new"
    /\ lex.parseMode = "Auto" /\ ~lex.detectedMode
    /\ lex' = [lex EXCEPT !.parseMode = detectParseMode(lex), !.detectedMode = TRUE]
    /\ lexPc' = "detected"
    /\ UNCHANGED <<tokens, segVars, hlVars, termVars, stdinVars, taskVars>>

DetectNext == DoDetectParseMode

SpecDetect == DetectInit /\ [][DetectNext]_vars

(***************************************************************************)
(* SpecPrompt: one Lexer on prompt lines: every combination of the         *)
(* optional fields of the prompt pattern around user "u" and host "h".     *)
(***************************************************************************)
\* {master:N}: absent or "{m}"
PromptRoles == { <<>>, <<123,109,125>> }

\* [edit ...]: absent or "[edit]"
PromptEdits == { <<>>, <<91,101,100,105,116,93>> }

\* leading control bytes: none, CR, or LF and a space
PromptLeads == { <<>>, <<chCR>>, <<chLF, chSpace>> }

\* the mode character: ">" or "#"
PromptModes == { <<62>>, <<35>> }

\* the whitespace after the mode character
PromptGaps == { <<>>, <<chSpace>>, <<chLF>> }

\* the trailing command: none, "show", "set foo ", a prompt "u@h#", and a
\* command with a line break in it (for which the pattern does not match)
PromptCommands == {
    <<>>,
    <<115,104,111,119>>,
    <<115,101,116,32,102,111,111,32>>,
    <<117,64,104,35>>,
    <<102,111,111,chLF,59>>
}

PromptEnds == { <<>>, <<chLF>> }

PromptInputs ==
    { r \o e \o ld \o <<117,64,104>> \o m \o gp \o c \o nl :
        r \in PromptRoles, e \in PromptEdits, ld \in PromptLeads, m \in PromptModes,
        gp \in PromptGaps, c \in PromptCommands, nl \in PromptEnds }

PromptInit ==
    /\ \E s \in PromptInputs : lex = New(s)
    /\ lexPc = "new"
    /\ tokens = <<>>
    /\ IdleSeg /\ IdleHl /\ IdleTerm /\ IdleStdin /\ IdleTask

SpecPrompt == PromptInit /\ [][LexNext]_vars

(***************************************************************************)
(* SpecAbsorb: a lexer, or the segmenter, on inputs in which a quoted      *)
(* string, a block comment or a CSI sequence is opened and followed by a   *)
(* short body, which may or may not close it.                              *)
(***************************************************************************)
MaxBodyLen == 2

\* what precedes the construct: nothing or "a "
AbsorbPrefixes == { <<>>, <<97, chSpace>> }

\* the openers of the lexer's constructs: a double quote, a single quote, "/*"
LexOpeners == { <<34>>, <<39>>, <<47, 42>> }

\* ESC "["
CSIOpener == <<escapeChar, csiBracket>>

\* "a", "1", backslash, "*", "/", a double quote, a newline
BodyAlphabet == {97, 49, 92, 42, 47, 34, chLF}

AbsorbBodies == StringsUpTo(BodyAlphabet, MaxBodyLen)

AbsorbLexInputs == { p \o o \o b : p \in AbsorbPrefixes, o \in LexOpeners, b \in AbsorbBodies }

AbsorbSegInputs ==
    { p \o o \o b : p \in AbsorbPrefixes, o \in LexOpeners \cup {CSIOpener}, b \in AbsorbBodies }

AbsorbInit ==
    /\ \/ /\ \E s \in AbsorbLexInputs : lex = New(s)
          /\ lexPc = "new" /\ tokens = <<>>
          /\ IdleSeg
       \/ /\ segInput \in AbsorbSegInputs
          /\ segPc = "new"
          /\ segments = <<>> /\ stripOnce = <<>> /\ stripTwice = <<>>
          /\ IdleLex
    /\ IdleHl /\ IdleTerm /\ IdleStdin /\ IdleTask

AbsorbNext == LexNext \/ SegNext

SpecAbsorb == AbsorbInit /\ [][AbsorbNext]_vars

(***************************************************************************)
(* SpecScan: one Lexer on inputs that reach every branch of nextToken:     *)
(* value and unit keywords, words, numbers, punctuation, quotes, comments, *)
(* wildcards, diff lines and a prompt.                                     *)
(***************************************************************************)
MaxScanPieces == 3

ScanPieces == {
    <<100,101,115,99,114,105,112,116,105,111,110,32>>,   \* "description "
    <<117,110,105,116,32>>,                              \* "unit "
    <<97>>,                                              \* "a"
    <<97,32>>,                                           \* "a "
    <<49>>,                                              \* "1"
    <<49,32>>,                                           \* "1 "
    <<59>>,                                              \* ";"
    <<123>>,                                             \* "{"
    <<34>>,                                              \* a double quote
    <<chLF>>,
    <<chTab>>,
    <<35>>,                                              \* "#"
    <<47,42>>,                                           \* "/*"
    <<60>>,                                              \* "<"
    <<42>>,                                              \* "*"
    <<43,32>>,                                           \* "+ "
    <<91,101,100,105,116,32>>,                           \* "[edit "
    <<117,64,104,62,32>>                                 \* "u@h> "
}

RECURSIVE ScanInputsUpTo(_)
\* every concatenation of at most n pieces
ScanInputsUpTo(n) ==
    IF n = 0 THEN {<<>>}
    ELSE LET shorter == ScanInputsUpTo(n - 1)
         IN  shorter \cup {s \o p : s \in shorter, p \in ScanPieces}

ScanInputs == ScanInputsUpTo(MaxScanPieces)

ScanInit == IdleLex /\ IdleSeg /\ IdleHl /\ IdleTerm /\ IdleStdin /\ IdleTask

\* lexer.New(input) on one of the inputs
ScanNew ==
    /\ lexPc = "idle"
    /\ \E s \in ScanInputs : lex' = New(s)
    /\ lexPc' = "new"
    /\ UNCHANGED <<tokens, segVars, hlVars, termVars, stdinVars, taskVars>>

ScanNext == ScanNew \/ LexNext

SpecScan == ScanInit /\ [][ScanNext]_vars


(***************************************************************************)
(* Claims.                                                                 *)
(***************************************************************************)
\* whether s holds an escape byte
HasEscape(s) == \E i \in 1..Len(s) : s[i] = escapeChar

\* the concatenation of the texts of a segment list
SegmentTexts(segs) == Concat([i \in 1..Len(segs) |-> segs[i].text])

\* C1: when Tokenize has returned, the Value fields of its tokens, concatenated
\* in order, are the input byte for byte.
C1_TokenizeLossless == lexPc = "done" => TokenValues(tokens) = lex.input

\* C6: the texts of extractSegments(s), concatenated in order, are s, for every
\* s: lone ESC bytes, non-CSI escapes and truncated CSI sequences included.
C6_SegmentRoundTrip == segPc = "segmented" => SegmentTexts(segments) = segInput

\* C6 witness: a segmented input with an ESC left in a text segment (a lone
\* or non-CSI escape) that ends in a CSI sequence cut off by the end of input
C6_Witness ==
    /\ segPc = "segmented"
    /\ Len(segments) >= 2
    /\ \E i \in 1..Len(segments) : ~segments[i].isEscape /\ HasEscape(segments[i].text)
    /\ segments[Len(segments)].isEscape
    /\ segments[Len(segments)].text = <<escapeChar, csiBracket, 49>>

\* C7: StripANSI(StripANSI(s)) = StripANSI(s) for every s.
C7_StripIdempotent == segPc = "restripped" => stripTwice = stripOnce

\* C7 witness: a stripped input from which a CSI sequence was removed between
\* an ESC and a '[', the bytes that would open a new CSI sequence
C7_Witness ==
    /\ segPc = "restripped"
    /\ segInput = <<escapeChar, escapeChar, csiBracket, 109, csiBracket>>
    /\ stripOnce = <<csiBracket, 109, csiBracket>>

\* C2: for every input without an escape byte that looksLikeJunOS accepts,
\* StripANSI(Highlight(input)) is the input.
C2_HighlightPreservesContent ==
    (/\ hCall.op = "Highlight"
     /\ ~HasEscape(hCall.input)
     /\ looksLikeJunOS(hCall.input))
    => StripANSI(hCall.result) = hCall.input

\* the rendering of one segment on the forced path
SegmentOutput(theme, seg) ==
    IF seg.isEscape THEN seg.text ELSE renderTokens(theme, Tokenize(New(seg.text)))

\* C5: on an enabled highlighter the result of HighlightForced is the in-order
\* concatenation, over extractSegments(input), of every escape segment as it
\* is and of every text segment tokenized and rendered on its own; an input
\* that begins with a CSI sequence gives a result that begins with it.
C5_ForcedKeepsEscapes ==
    (hCall.op = "HighlightForced" /\ hCall.enabled /\ hCall.input # <<>>)
    => LET segs == extractSegments(hCall.input)
       IN  /\ hCall.result =
                  Concat([i \in 1..Len(segs) |-> SegmentOutput(hCall.theme, segs[i])])
           /\ StartsCSI(hCall.input, 0)
                  => /\ segs[1].isEscape
                     /\ HasPrefix(hCall.input, segs[1].text)
                     /\ HasPrefix(hCall.result, segs[1].text)

\* C5 witness: a forced call on ESC "[K" followed by "set foo": the result
\* begins with ESC "[K" and carries colour after it
C5_Witness ==
    /\ hCall.op = "HighlightForced"
    /\ hCall.enabled
    /\ hCall.input = <<escapeChar, csiBracket, 75, 115,101,116,32, 102,111,111>>
    /\ HasPrefix(hCall.result, <<escapeChar, csiBracket, 75, escapeChar, csiBracket>>)
    /\ Len(extractSegments(hCall.input)) = 2

\* C8: Highlight returns its input when the highlighter is disabled, the input
\* is empty or looksLikeJunOS rejects the stripped input; HighlightForced and
\* HighlightShowOutput return their input when the highlighter is disabled or
\* the input is empty.
C8_InputReturned ==
    /\ (hCall.op \in {"Highlight", "HighlightForced", "HighlightShowOutput"}
        /\ (~hCall.enabled \/ hCall.input = <<>>))
       => hCall.result = hCall.input
    /\ (hCall.op = "Highlight" /\ ~looksLikeJunOS(StripANSI(hCall.input)))
       => hCall.result = hCall.input

\* C8 witness: an enabled Highlight call whose input holds an escape sequence
\* and is rejected by looksLikeJunOS once stripped
C8_Witness ==
    /\ hCall.op = "Highlight"
    /\ hCall.enabled
    /\ HasEscape(hCall.input)
    /\ StripANSI(hCall.input) # hCall.input
    /\ ~looksLikeJunOS(StripANSI(hCall.input))
    /\ hCall.result = hCall.input

\* C3: with highlighting disabled the writes of processOutput, concatenated,
\* are the bytes read so far, whatever the reads were; when the relay has
\* ended they are the whole source stream.
C3_StreamPassThrough ==
    (termPc \in {"relay", "done"} /\ ~termEnabled)
    => /\ Concat(writes) = Slice(src, 0, srcPos)
       /\ termPc = "done" => Concat(writes) = src

\* C3 witness: a line without newline, longer than lineFlushLimit, that came
\* in one Read together with the error that ended the relay
C3_Witness ==
    /\ termPc = "done"
    /\ ~termEnabled
    /\ lastRead = [n |-> Len(src), err |-> TRUE]
    /\ Len(src) > lineFlushLimit + 1
    /\ ~Contains(src, <<chLF>>)
    /\ Len(writes) = 2
    /\ Len(writes[1]) = lineFlushLimit + 1

\* whether the escape segment seg is a complete CSI sequence: ESC '[' up to
\* and including a final byte
IsCompleteCSI(seg) ==
    seg.isEscape /\ Len(seg.text) >= 3 /\ isCSIFinalByte(seg.text[Len(seg.text)])

\* C4: with highlighting enabled, when the relay has ended every complete CSI
\* sequence of the source stream is found in the output, contiguous and
\* unmodified, whatever the reads were.
C4_EscapeIntegrity ==
    (termPc = "done" /\ termEnabled)
    => LET segs == extractSegments(src)
       IN  \A i \in 1..Len(segs) :
               IsCompleteCSI(segs[i]) => Contains(Concat(writes), segs[i].text)

\* C9 as stated: with highlighting disabled the bytes written are the source
\* bytes with every escape sequence removed.
C9_WritesStripped ==
    (termPc = "done" /\ ~termEnabled) => Concat(writes) = StripANSI(src)

\* C9 amended: with highlighting disabled every write is the line buffer as
\* read, so the bytes written are the source bytes with their escape
\* sequences in place; they are the stripped source only when the source has
\* no escape sequence to strip.
C9_WritesKeepEscapes ==
    (termPc = "done" /\ ~termEnabled)
    => /\ extractSegments(Concat(writes)) = extractSegments(src)
       /\ Concat(writes) = StripANSI(src) <=> StripANSI(src) = src

\* C9 witness: a relayed stream that begins with ESC "[K", written with the
\* sequence in place
C9_Witness ==
    /\ termPc = "done"
    /\ ~termEnabled
    /\ HasPrefix(src, <<escapeChar, csiBracket, 75>>)
    /\ Concat(writes) = src
    /\ StripANSI(src) # src

\* C10: in highlightStdin the detection flag never returns to false; with
\* force it is true from the first line; with disabled every line is printed
\* unchanged; otherwise a line read with the flag set is printed as
\* HighlightForced renders it, a line that looksLikeJunOS accepts sets the
\* flag, and a line that leaves the flag unset is printed unchanged.
C10_StickyDetection ==
    \A i \in 1..Len(printed) :
        /\ printed[i].before => printed[i].after
        /\ i > 1 => printed[i].before = printed[i - 1].after
        /\ force => printed[i].before
        /\ disabled => printed[i].out = printed[i].line
        /\ (~disabled /\ printed[i].before)
               => printed[i].out = HighlightForced(h, printed[i].line)
        /\ (~disabled /\ ~printed[i].before /\ looksLikeJunOS(StripANSI(printed[i].line)))
               => printed[i].after
        /\ (~disabled /\ ~printed[i].after) => printed[i].out = printed[i].line

\* C11: in every turn of the read loop the line buffer is handed to
\* writeOutput exactly when a newline was appended or it grew beyond
\* lineFlushLimit, and what is left of it at the end of the turn; so no flush
\* is empty or longer than lineFlushLimit+1, the flushes of a turn are the
\* bytes of its Read, and the buffer is empty when the next Read is issued.
C11_StreamBuffering ==
    termPc \in {"relay", "done"}
    => /\ lineBuf = <<>>
       /\ Concat(flushed) = Slice(src, srcPos - lastRead.n, srcPos)
       /\ \A i \in 1..Len(flushed) :
              /\ flushed[i] # <<>>
              /\ Len(flushed[i]) <= lineFlushLimit + 1
              /\ \A k \in 1..(Len(flushed[i]) - 1) : flushed[i][k] # chLF
              /\ i < Len(flushed)
                     => \/ flushed[i][Len(flushed[i])] = chLF
                        \/ Len(flushed[i]) = lineFlushLimit + 1

\* C11 witness: a Read of a full line followed by a partial line, flushed as
\* the line up to its newline and the rest at the end of the Read
C11_Witness ==
    /\ termPc = "relay"
    /\ termEnabled
    /\ lastRead.n = 4
    /\ Len(flushed) = 2
    /\ flushed[1] = <<97, chLF>>
    /\ flushed[2] = <<97, 97>>
    /\ Len(writes) = 2
    /\ lineBuf = <<>>

\* C12: the output relay stops at the first read error and never reads
\* again; Run waits for the subprocess only after the output relay has
\* ended, then returns nil if the subprocess exited cleanly and otherwise
\* the wrapped error of the subprocess.
C12_RunOrdering ==
    /\ [](/\ termPc = "relay" => ~lastRead.err
          /\ termPc = "done" => lastRead.err
          /\ (runPc = "waitCmd" \/ runResult \in {"nil", "waitErr"})
                 => termPc = "done" /\ doneClosed
          /\ runResult = "nil" => cmd = "exited" /\ exitOk
          /\ runResult = "waitErr" => cmd = "exited" /\ ~exitOk
          /\ (runPc = "returned" /\ inRelay # "none")
                 => runResult = IF exitOk THEN "nil" ELSE "waitErr")
    /\ [][termPc = "done"
              => /\ termPc' = "done"
                 /\ UNCHANGED <<srcPos, lastRead, lineBuf, writes, flushed>>]_vars

\* Run has returned the error of the subprocess after the relay stopped at a
\* read error in the middle of the stream
C12_Witness ==
    /\ runPc = "returned" /\ runResult = "waitErr" /\ ~exitOk
    /\ termPc = "done" /\ lastRead.err /\ srcPos < Len(src) /\ writes # <<>>

\* C13: on every return of Run after the pty was acquired, the pty handle is
\* closed, the resize subscription is stopped, the resize handler has exited
\* and raw mode is restored if it had been entered; the resize handler never
\* uses the closed pty handle and nothing is sent on the closed resize
\* channel.
C13_GuaranteedCleanup ==
    /\ (runPc = "returned" /\ pty # "none")
           => /\ pty = "closed"
              /\ ~sigSub /\ sigClosed /\ sigBuf = 0
              /\ sigHandler = "exited"
              /\ raw = IF runResult = "rawErr" THEN "cooked" ELSE "restored"
              /\ cleanup = <<>>
    /\ raw = "raw" => runPc \in {"spawn", "waitDone", "waitCmd", "unwind"}
    /\ "resizeOnClosedPty" \notin misuse
    /\ "sendOnClosed" \notin misuse

\* Run has returned from a failed term.MakeRaw after the resize handler had
\* propagated a size, with everything released
C13_Witness ==
    /\ runPc = "returned" /\ runResult = "rawErr"
    /\ pty = "closed" /\ sigHandler = "exited" /\ ~sigSub
    /\ "resize" \in faults

\* the result of Run as the failures of pty.Start and term.MakeRaw and the
\* exit of the subprocess determine it
FatalResult ==
    IF "start" \in faults THEN "startErr"
    ELSE IF "raw" \in faults THEN "rawErr"
    ELSE IF exitOk THEN "nil" ELSE "waitErr"

\* C14: besides the exit error of the subprocess Run reports exactly the
\* failure of pty.Start and the failure of term.MakeRaw, each returned
\* before a relay task is started; failures of resizing, restoring, closing,
\* the input copy, output reads and output writes never change the result.
C14_FatalConditions ==
    /\ runResult = "startErr" <=> "start" \in faults
    /\ runResult = "rawErr" <=> "raw" \in faults
    /\ runResult = "startErr" => runPc = "returned" /\ pty = "none" /\ cmd = "none"
    /\ runResult = "rawErr" => runPc \in {"unwind", "returned"} /\ raw = "cooked"
    /\ runResult \in {"startErr", "rawErr"}
           => inRelay = "none" /\ termPc = "new" /\ ~doneClosed
    /\ runPc = "returned" => runResult = FatalResult
    /\ runPc \notin {"unwind", "returned"} => runResult = "none"

\* Run has returned nil although resizing, restoring, closing, the input
\* copy, an output write and an output read in the middle of the stream
\* have all failed
C14_Witness ==
    /\ runPc = "returned" /\ runResult = "nil"
    /\ faults = {"resize", "restore", "close", "copy", "write"}
    /\ lastRead.err /\ srcPos < Len(src)

\* every access to h.theme and h.enabled is made while holding h.mu
HighlighterFieldsLocked ==
    lastAccess.field \in {"h.theme", "h.enabled"} => lastAccess.locked

\* every access to t.enabled is made while holding the lock
TerminalFieldLocked ==
    lastAccess.field = "t.enabled" => lastAccess.locked

\* h.mu is held only between the lock operation and the field access that
\* follows it, and so never while segmenting, tokenizing, rendering or writing
LockHeldForOneAccess ==
    /\ Holds("relay") <=> lk.pc \in {"enRead", "enRUnlock", "thRead", "thRUnlock"}
    /\ \A t \in CfgTasks : Holds(t) <=> cfg[t].pc \in {"load", "store", "unlock"}

\* C15: every read or write of the shared configuration state (h.theme,
\* h.enabled and the enabled flag of the Terminal that the output relay
\* reads) happens while holding the read/write lock, and the lock is never
\* held while tokenizing, rendering or doing I/O.
C15_LockDiscipline ==
    /\ HighlighterFieldsLocked
    /\ TerminalFieldLocked
    /\ LockHeldForOneAccess

\* the token types of the scanners other than scanWord
StructureTypes ==
    {"Text", "Comment", "String", "Brace", "Semicolon", "Wildcard", "Value",
     "DiffAdd", "DiffRemove", "DiffContext"}

\* whether a token was classified by classifyWord
IsWordToken(tk) == tk.Type \notin StructureTypes

\* whether the step appends exactly one token, classified by classifyWord
AppendsWord ==
    /\ Len(tokens') = Len(tokens) + 1
    /\ IsWordToken(tokens'[Len(tokens')])

\* C16: an Auto-mode lexer runs the parse-mode detector at most once, when
\* its first word is classified; once the mode is Config or Show it never
\* changes for the rest of the scan.
C16_ModeLatching ==
    [][/\ lex'.detectedMode <=> lex'.parseMode \in {"Config", "Show"}
       /\ lex.detectedMode => lex'.detectedMode /\ lex'.parseMode = lex.parseMode
       /\ (lexPc = "scan" /\ ~lex.detectedMode /\ lex'.detectedMode)
              => /\ lex'.parseMode = detectParseMode(lex)
                 /\ \A i \in 1..Len(tokens) : ~IsWordToken(tokens[i])
                 /\ AppendsWord
       /\ (lexPc = "scan" /\ ~lex.detectedMode /\ ~lex'.detectedMode)
              => ~AppendsWord]_vars

\* an Auto-mode scan that latched Show at its first word is at its second
\* word, which alone would score Config
C16_Witness ==
    /\ lexPc = "scan" /\ lex.detectedMode /\ lex.parseMode = "Show"
    /\ detectParseMode(lex) = "Show"
    /\ detectParseMode(New(Slice(lex.input, lex.pos, Len(lex.input)))) = "Config"
    /\ Len(tokens) = 2 /\ IsWordToken(tokens[1]) /\ tokens[2].Type = "Text"
    /\ lex.pos < Len(lex.input)

\* the word "up"
WordUp == <<117, 112>>

\* C17: the one-word input "up" tokenizes to exactly one state-good token
\* under Show mode and to exactly one identifier token under Config mode.
C17_UpByMode ==
    (lexPc = "done" /\ lex.input = WordUp)
        => /\ lex.parseMode = "Show"
                  => tokens = <<Token("StateGood", WordUp, 1, 1)>>
           /\ lex.parseMode = "Config"
                  => tokens = <<Token("Identifier", WordUp, 1, 1)>>

\* what Tokenize returns for "up": state-good under Show mode, command under
\* Config mode
C17_UpIsCommand ==
    (lexPc = "done" /\ lex.input = WordUp)
        => /\ lex.parseMode = "Show"
                  => tokens = <<Token("StateGood", WordUp, 1, 1)>>
           /\ lex.parseMode = "Config"
                  => tokens = <<Token("Command", WordUp, 1, 1)>>

\* every classified word that matches the AS-number pattern is an ASN token
ASNWordsAreASN ==
    \A i \in 1..Len(tokens) :
        (IsWordToken(tokens[i]) /\ asnPattern(tokens[i].Value))
            => tokens[i].Type = "ASN"

\* C18: a word matching the AS-number pattern is classified ASN, never
\* identifier, under Config mode and under Show mode alike.
C18_ASNInBothModes ==
    lex.parseMode \in {"Config", "Show"} => ASNWordsAreASN

\* the same under Config mode alone
C18_ASNInConfigMode ==
    lex.parseMode = "Config" => ASNWordsAreASN

\* the kinds of the shared patterns, in the order of precedence the
\* specification gives
SharedOrder ==
    <<"Interface", "IPv4Prefix", "IPv4", "MAC", "Community", "IPv6Prefix", "IPv6",
      "Number">>

\* whether word matches the pattern of a kind of SharedOrder
MatchesKind(kind, word) ==
    CASE kind = "Interface"  -> interfacePattern(word)
      [] kind = "IPv4Prefix" -> ipv4PrefixPattern(word)
      [] kind = "IPv4"       -> ipv4Pattern(word)
      [] kind = "MAC"        -> macPattern(word)
      [] kind = "Community"  -> communityPattern(word)
      [] kind = "IPv6Prefix" -> ipv6PrefixPattern(word)
      [] kind = "IPv6"       -> ipv6Pattern(word)
      [] kind = "Number"     -> numberPattern(word)

\* the kind of the first pattern of SharedOrder that matches, Identifier if
\* none does
FirstMatch(word) ==
    LET hits == {k \in 1..Len(SharedOrder) : MatchesKind(SharedOrder[k], word)}
    IN  IF hits = {} THEN "Identifier"
        ELSE SharedOrder[CHOOSE k \in hits : \A j \in hits : k <= j]

\* the kinds classifySharedPatterns gives
SharedTypes ==
    {"Interface", "IPv4Prefix", "IPv4", "MAC", "Community", "IPv6Prefix", "IPv6",
     "Number", "Identifier"}

\* C19: a word that reaches the shared patterns gets the kind of the first
\* matching pattern in the order interface, IPv4-with-prefix, IPv4, MAC,
\* community, IPv6-with-prefix, IPv6, sized number, and identifier if none
\* matches; so a six-group colon-hex string is MAC and a digits:digits string
\* is community, never IPv6.
C19_SharedPrecedence ==
    \A i \in 1..Len(tokens) :
        /\ tokens[i].Type \in SharedTypes
               => tokens[i].Type = FirstMatch(tokens[i].Value)
        /\ (tokens[i].Type \in SharedTypes /\ macPattern(tokens[i].Value))
               => tokens[i].Type = "MAC"
        /\ (tokens[i].Type \in SharedTypes /\ communityPattern(tokens[i].Value))
               => tokens[i].Type = "Community"
        /\ (macPattern(tokens[i].Value) \/ communityPattern(tokens[i].Value))
               => tokens[i].Type \notin {"IPv6", "IPv6Prefix"}

\* a six-group colon-hex string, which the IPv6 pattern matches too, is a MAC
\* token, and a digits:digits string, which the IPv6 pattern matches too, is
\* a community token
C19_Witness ==
    /\ lexPc = "done" /\ Len(tokens) = 3
    /\ tokens[1].Type = "MAC" /\ ipv6Pattern(tokens[1].Value)
    /\ tokens[3].Type = "Community" /\ ipv6Pattern(tokens[3].Value)

\* the keyword sets of the Config-mode cascade with the kinds they give, in
\* the order the specification gives
CascadeOrder ==
    <<[type |-> "Command",  set |-> commands],
      [type |-> "Section",  set |-> sections],
      [type |-> "Protocol", set |-> protocols],
      [type |-> "Action",   set |-> actions],
      [type |-> "Keyword",  set |-> keywords]>>

\* the kind of the first set of CascadeOrder that holds the lowered word,
\* that of the shared patterns if none does
CascadeKind(word) ==
    LET hits == {k \in 1..Len(CascadeOrder) : ToLower(word) \in CascadeOrder[k].set}
    IN  IF hits = {} THEN FirstMatch(word)
        ELSE CascadeOrder[CHOOSE k \in hits : \A j \in hits : k <= j].type

\* the word "unit"
WordUnit == <<117, 110, 105, 116>>

\* the token a step has appended
LastToken == tokens'[Len(tokens')]

\* C20: under Config mode a word of several keyword sets is classified by
\* the first containing set in the order command, section, protocol, action,
\* keyword, and a word of no set by the shared patterns; expectingValue is
\* set only by a keyword of the value-taking subset and expectingUnit only by
\* the keyword "unit".
C20_ConfigCascade ==
    /\ [](lex.parseMode = "Config"
            => \A i \in 1..Len(tokens) :
                   (IsWordToken(tokens[i]) /\ tokens[i].Type \notin {"Unit", "ASN"})
                       => tokens[i].Type = CascadeKind(tokens[i].Value))
    /\ [][lexPc = "scan"
            => /\ (lex'.expectingValue /\ ~lex.expectingValue)
                      <=> /\ AppendsWord /\ LastToken.Type = "Keyword"
                          /\ ToLower(LastToken.Value) \in valueKeywords
               /\ (lex'.expectingUnit /\ ~lex.expectingUnit)
                      <=> /\ AppendsWord /\ LastToken.Type = "Keyword"
                          /\ ToLower(LastToken.Value) = WordUnit
                          /\ ~lex.expectingUnit]_vars

\* a Config-mode scan of "discard unit": discard, in the action set and in
\* the keyword set, is an action, and the keyword unit has set expectingUnit
\* and left expectingValue alone
C20_Witness ==
    /\ lexPc = "done" /\ lex.parseMode = "Config" /\ Len(tokens) = 3
    /\ tokens[1].Type = "Action" /\ tokens[1].Value \in actions \cap keywords
    /\ tokens[3].Type = "Keyword" /\ tokens[3].Value = WordUnit
    /\ lex.expectingUnit /\ ~lex.expectingValue

\* C29: when Run returns, the input relay, the output relay and the resize
\* handler have terminated; the input relay neither reads from the terminal
\* after Run returned nor writes to the pty handle after it was closed.
C29_NoTaskOutlivesRun ==
    /\ runPc = "returned"
           => /\ inRelay \in {"none", "ended"}
              /\ termPc \in {"new", "done"}
              /\ sigHandler \in {"none", "exited"}
    /\ "inputOnClosedPty" \notin misuse
    /\ "stdinReadAfterReturn" \notin misuse

\* the same for the output relay and the resize handler alone
C29_AwaitedTasksEnd ==
    /\ runPc = "returned"
           => /\ termPc \in {"new", "done"} /\ (termPc = "done" => doneClosed)
              /\ sigHandler \in {"none", "exited"}
    /\ "outputOnClosedPty" \notin misuse
    /\ "resizeOnClosedPty" \notin misuse

\* C30: one HighlightForced call colours all text segments of its input with
\* one and the same theme, also when SetTheme runs concurrently: its output
\* is the output of the call under one theme.
C30_OneThemePerCall ==
    (lk.pc = "write" /\ lk.enabled)
        => /\ Cardinality(lk.themes) <= 1
           /\ \E theme \in ThemeNames :
                  lk.out = HighlightForced(NewHighlighter(theme), lk.input)

\* a call whose reads of h.theme all gave one theme has the output of that
\* theme
C30_OutputOfThemeRead ==
    (lk.pc = "write" /\ lk.enabled)
        => \A theme \in ThemeNames :
               lk.themes = {theme}
                   => lk.out = HighlightForced(NewHighlighter(theme), lk.input)

\* whether the step is the store of task t's call of op
Stores(t, op) ==
    cfg[t].pc = "store" /\ cfg[t].op = op /\ cfg'[t].pc = "unlock"

\* C24: a new Highlighter is enabled; Toggle flips the flag atomically and
\* returns the new value, which IsEnabled then reports; Enable and Disable
\* set it to true and to false whatever it was; under every interleaving of
\* concurrent Toggle calls each call flips the flag once (no lost update).
C24_EnableFlag ==
    /\ [](/\ lastAccess = NoAccess => h.enabled
          /\ \A t \in CfgTasks :
                 /\ (cfg[t].op = "Toggle" /\ cfg[t].pc = "store")
                        => cfg[t].local = h.enabled
                 /\ (cfg[t].op = "Toggle" /\ cfg[t].pc = "unlock")
                        => cfg[t].ret = h.enabled
          /\ lk.pc = "enRUnlock" => lk.enabled = h.enabled)
    /\ [][/\ \A t \in CfgTasks :
                 /\ Stores(t, "Toggle")
                        => h'.enabled = ~h.enabled /\ cfg'[t].ret = h'.enabled
                 /\ Stores(t, "Enable") => h'.enabled
                 /\ Stores(t, "Disable") => ~h'.enabled
          /\ h'.enabled # h.enabled
                 => \E t \in CfgTasks :
                        Stores(t, "Toggle") \/ Stores(t, "Enable") \/ Stores(t, "Disable")
         ]_vars

\* one task has stored its Toggle of a disabled Highlighter and is about to
\* return true while the other waits for the lock with its own Toggle
C24_Witness ==
    /\ cfg["ui1"].op = "Toggle" /\ cfg["ui1"].pc = "unlock" /\ cfg["ui1"].ret
    /\ cfg["ui2"].op = "Toggle" /\ cfg["ui2"].pc = "lock"
    /\ h.enabled /\ mu.writer = "ui1"

\* the first parseModeDetectionSampleSize bytes of s, or all of s
FirstBytes(s) ==
    IF Len(s) > parseModeDetectionSampleSize
    THEN SubSeq(s, 1, parseModeDetectionSampleSize) ELSE s

\* how many of the indicators the string holds
ScoreOf(lower, indicators) ==
    Cardinality({ind \in {indicators[i] : i \in 1..Len(indicators)} :
                     Contains(lower, ind)})

\* the show score of a sample: its indicators, and 2 when it is tabular
ShowScoreOf(sample, lower) ==
    ScoreOf(lower, modeShowIndicators) + (IF tabularPattern(sample) THEN 2 ELSE 0)

\* the mode the decision rule gives for s
DecidedMode(s) ==
    LET sample == FirstBytes(s)
        lower == ToLower(sample)
        showScore == ShowScoreOf(sample, lower)
        configScore == ScoreOf(lower, modeConfigIndicators)
    IN  IF showScore >= 2 /\ showScore > configScore THEN "Show" ELSE "Config"

\* the first parseModeDetectionSampleSize bytes of s
SampleOf(s) == SubSeq(s, 1, parseModeDetectionSampleSize)

\* C21: detectParseMode returns Show exactly when showScore >= 2 and
\* showScore > configScore, the scores taken from at most the first 500
\* bytes, and Config otherwise; inputs that agree on their first 500 bytes
\* get the same mode.
C21_DecisionRule ==
    lexPc = "detected"
        => /\ lex.parseMode = DecidedMode(lex.input)
           /\ Len(lex.input) >= parseModeDetectionSampleSize
                  => \A t \in DetectTails(1) :
                         detectParseMode(New(SampleOf(lex.input) \o t)) = lex.parseMode

\* Config was detected for an input whose show indicators lie beyond the
\* sample, so that the whole input would score Show
C21_Witness ==
    /\ lexPc = "detected" /\ lex.parseMode = "Config"
    /\ Len(lex.input) > parseModeDetectionSampleSize
    /\ CountContained(ToLower(lex.input), modeShowIndicators) >= 2
    /\ CountContained(ToLower(lex.input), modeConfigIndicators) = 0

(***************************************************************************)
(* C22, C25: the decomposition of a prompt line.                           *)
(***************************************************************************)
\* the kinds of the tokens that may precede the user name, in their order
PromptHeads ==
    { <<>>, <<"PromptEdit">>, <<"Text">>, <<"PromptEdit", "PromptEdit">>,
      <<"PromptEdit", "Text">>, <<"PromptEdit", "PromptEdit", "Text">> }

TypesOf(toks) == [i \in 1..Len(toks) |-> toks[i].Type]

ValuesOf(toks) == [i \in 1..Len(toks) |-> toks[i].Value]

AllIn(s, class) == \A i \in 1..Len(s) : s[i] \in class

\* the index of the first user-name token of toks, 0 when there is none
UserIndex(toks) ==
    IF \E i \in 1..Len(toks) : toks[i].Type = "PromptUser"
    THEN CHOOSE i \in 1..Len(toks) :
             /\ toks[i].Type = "PromptUser"
             /\ \A j \in 1..(i - 1) : toks[j].Type # "PromptUser"
    ELSE 0

\* the tokens before the user name: a role marker "{...}", an edit context
\* "[edit...]" and the leading control bytes, each optional, in this order
PromptHeadOk(head) ==
    /\ TypesOf(head) \in PromptHeads
    /\ \A i \in 1..Len(head) :
          /\ head[i].Value # <<>>
          /\ head[i].Type = "Text" => AllIn(head[i].Value, PromptLeadClass)
          /\ head[i].Type = "PromptEdit"
                => \/ Head(head[i].Value) = 123 /\ i = 1
                   \/ HasPrefix(head[i].Value, editOpen)
    /\ Len(head) >= 2 /\ head[2].Type = "PromptEdit"
          => Head(head[1].Value) = 123 /\ HasPrefix(head[2].Value, editOpen)

\* user, "@", host and mode character, the host and the mode character both
\* operational or both configuration
PromptCoreOk(core) ==
    /\ core[1].Type = "PromptUser" /\ AllIn(core[1].Value, PromptUserClass)
    /\ core[2].Type = "PromptAt" /\ core[2].Value = <<64>>
    /\ AllIn(core[3].Value, PromptHostClass)
    /\ \/ core[3].Type = "PromptHostOper" /\ core[4].Type = "PromptOper" /\ core[4].Value = <<62>>
       \/ core[3].Type = "PromptHostConf" /\ core[4].Type = "PromptConf" /\ core[4].Value = <<35>>

\* a token of whitespace only
IsGapToken(tk) == tk.Type = "Text" /\ tk.Value # <<>> /\ AllIn(tk.Value, ReSpaceClass)

\* s without one final newline
DropFinalNewline(s) == IF HasSuffix(s, <<chLF>>) THEN SubSeq(s, 1, Len(s) - 1) ELSE s

\* the tokens after the mode character: the whitespace, the tokens of the
\* trailing command as a lexer of its own gives them, and the final newline
PromptTailOk(input, consumed, tail) ==
    LET gap  == IF tail # <<>> /\ IsGapToken(tail[1]) THEN tail[1].Value ELSE <<>>
        rest == SubSeq(tail, (IF gap # <<>> THEN 2 ELSE 1), Len(tail))
        left == Slice(input, consumed + Len(gap), Len(input))
        text == IF left = <<>> THEN <<>> ELSE DropFinalNewline(left)
        cmdT == IF text = <<>> THEN <<>> ELSE Tokenize(New(TrimSpace(text)))
        nl   == IF HasSuffix(input, <<chLF>>) THEN <<Token("Text", <<chLF>>, 1, 1)>> ELSE <<>>
    IN  /\ HasPrefix(Slice(input, consumed, Len(input)), gap)
        /\ TypesOf(rest) = TypesOf(cmdT \o nl)
        /\ ValuesOf(rest) = ValuesOf(cmdT \o nl)

\* C22: when the whole chunk matches the prompt pattern, Tokenize returns
\* [role marker] [edit context] [leading control bytes] user "@" host mode
\* [whitespace] [tokens of the trailing command], the fields before the
\* command being consecutive pieces of the input; host and mode character
\* are both operational for ">" and both configuration for "#"
C22_PromptDecomposition ==
    (lexPc = "done" /\ PromptMatch(lex.input).ok)
        => LET k == UserIndex(tokens)
           IN  /\ k >= 1 /\ Len(tokens) >= k + 3
               /\ PromptHeadOk(SubSeq(tokens, 1, k - 1))
               /\ PromptCoreOk(SubSeq(tokens, k, k + 3))
               /\ HasPrefix(lex.input, TokenValues(SubSeq(tokens, 1, k + 3)))
               /\ PromptTailOk(lex.input, Len(TokenValues(SubSeq(tokens, 1, k + 3))),
                               SubSeq(tokens, k + 4, Len(tokens)))

\* a configuration prompt with every optional field and a trailing command
C22_Witness ==
    /\ lexPc = "done" /\ PromptMatch(lex.input).ok
    /\ Len(tokens) >= 9
    /\ TypesOf(SubSeq(tokens, 1, 9))
         = <<"PromptEdit", "PromptEdit", "Text", "PromptUser", "PromptAt",
             "PromptHostConf", "PromptConf", "Text", "Command">>

\* the number of bytes b in s
CountByte(s, b) == Cardinality({i \in 1..Len(s) : s[i] = b})

\* the leading control bytes of a prompt line are one Text token, verbatim,
\* right before the user name
LeadEmittedVerbatim ==
    LET g == PromptMatch(lex.input).g
        k == UserIndex(tokens)
    IN  g[3] # <<>>
            => /\ k >= 2
               /\ tokens[k - 1].Type = "Text" /\ tokens[k - 1].Value = g[3]
               /\ \A j \in 1..(k - 2) : tokens[j].Type # "Text"

\* the token values hold as many newline bytes as the input
NewlinesPreserved == CountByte(TokenValues(tokens), chLF) = CountByte(lex.input, chLF)

\* C25: for a prompt-matching chunk the leading whitespace/control bytes are
\* emitted verbatim as one text token, and the token values contain the same
\* number of newline bytes as the input, also when no command follows the
\* mode character
C25_PromptBoundaryBytes ==
    (lexPc = "done" /\ PromptMatch(lex.input).ok)
        => LeadEmittedVerbatim /\ NewlinesPreserved

\* the part of C25 the code satisfies: the leading bytes are verbatim, and
\* the newline count is kept whenever a command follows the mode character
C25_BoundaryBytesWithCommand ==
    (lexPc = "done" /\ PromptMatch(lex.input).ok)
        => /\ LeadEmittedVerbatim
           /\ PromptMatch(lex.input).g[8] # <<>> => NewlinesPreserved

(***************************************************************************)
(* C23: unterminated constructs.                                           *)
(***************************************************************************)
\* no byte b of s at a 0-based index >= p
NoByteFrom(s, p, b) == \A i \in p..(Len(s) - 1) : At(s, i) # b

\* no "*/" in s at a 0-based index >= p
NoCommentEndFrom(s, p) == \A i \in p..(Len(s) - 2) : ~(At(s, i) = 42 /\ At(s, i + 1) = 47)

\* the scan loop is about to read a token at a quote that is not closed
AtOpenString ==
    /\ lexPc = "scan" /\ lex.pos < Len(lex.input)
    /\ At(lex.input, lex.pos) \in {34, 39}
    /\ NoByteFrom(lex.input, lex.pos + 1, At(lex.input, lex.pos))

\* the scan loop is about to read a token at a "/*" that is not closed
AtOpenComment ==
    /\ lexPc = "scan" /\ lex.pos + 1 < Len(lex.input)
    /\ At(lex.input, lex.pos) = 47 /\ At(lex.input, lex.pos + 1) = 42
    /\ NoCommentEndFrom(lex.input, lex.pos + 2)

\* the step appends one token that runs from the cursor through the last byte
AbsorbsToEnd ==
    /\ lex'.pos = Len(lex.input)
    /\ Len(tokens') = Len(tokens) + 1
    /\ SubSeq(tokens', 1, Len(tokens)) = tokens
    /\ tokens'[Len(tokens')].Value = Slice(lex.input, lex.pos, Len(lex.input))

\* the 0-based index of the first ESC of s, Len(s) when there is none
FirstEscape(s) == IndexFrom(s, 0, {escapeChar})

\* the first escape of the input opens a CSI sequence that the end of the
\* input cuts off: only parameter bytes follow ESC "["
CutOffCSI(s) ==
    LET i == FirstEscape(s)
    IN  /\ i + 1 < Len(s) /\ At(s, i + 1) = csiBracket
        /\ \A j \in (i + 2)..(Len(s) - 1) : isCSIParamByte(At(s, j))

\* the last segment is one escape segment from the first ESC through the
\* last byte
LastSegmentAbsorbs ==
    /\ segments # <<>>
    /\ segments[Len(segments)] = Seg(Slice(segInput, FirstEscape(segInput), Len(segInput)), TRUE)
    /\ \A i \in 1..(Len(segments) - 1) : ~segments[i].isEscape

StringAbsorbed == AtOpenString /\ lex' # lex => AbsorbsToEnd /\ tokens'[Len(tokens')].Type = "String"

CommentAbsorbed == AtOpenComment /\ lex' # lex => AbsorbsToEnd /\ tokens'[Len(tokens')].Type = "Comment"

CSIAbsorbed == (segPc = "segmented" /\ CutOffCSI(segInput)) => LastSegmentAbsorbs

\* C23: an unterminated quoted string and an unterminated block comment are
\* each one token that extends through the last byte of the input, and a CSI
\* sequence cut off by the end of the input is one escape segment that
\* extends through the last byte
C23_UnterminatedAbsorbed ==
    /\ []CSIAbsorbed
    /\ [][StringAbsorbed /\ CommentAbsorbed]_vars

\* the part of C23 the code satisfies: strings and CSI sequences
C23_StringAndCSIAbsorbed ==
    /\ []CSIAbsorbed
    /\ [][StringAbsorbed]_vars

(***************************************************************************)
(* C26, C27, C28: value and unit expectations, progress of the scan.       *)
(***************************************************************************)
\* a whitespace token of the scan loop
IsBlankToken(tk) == tk.Type = "Text" /\ AllIn(tk.Value, WhitespaceBytes)

\* the keyword "unit", in any case
IsUnitKeyword(tk) == tk.Type = "Keyword" /\ ToLower(tk.Value) = WordUnit

\* token i is all digits and only whitespace lies between it and a "unit"
\* keyword before it
UnitAdjacent(toks, i) ==
    /\ AllDigits(toks[i].Value)
    /\ \E j \in 1..(i - 1) :
          /\ IsUnitKeyword(toks[j])
          /\ \A k \in (j + 1)..(i - 1) : IsBlankToken(toks[k])

\* C27: a word is classified unit only if it is all digits and no
\* non-whitespace token lies between it and the preceding "unit" keyword
C27_UnitAdjacent ==
    \A i \in 1..Len(tokens) : tokens[i].Type = "Unit" => UnitAdjacent(tokens, i)

\* the part of C27 the code satisfies: a unit token is all digits and some
\* "unit" keyword precedes it
C27_UnitAfterKeyword ==
    \A i \in 1..Len(tokens) :
        tokens[i].Type = "Unit"
            => /\ AllDigits(tokens[i].Value)
               /\ \E j \in 1..(i - 1) : IsUnitKeyword(tokens[j])

\* a keyword that takes a value
IsValueKeyword(tk) == tk.Type = "Keyword" /\ ToLower(tk.Value) \in valueKeywords

\* every value token has a value-taking keyword before it, with no other
\* value token in between
ValuesFollowKeywords ==
    \A i \in 1..Len(tokens) :
        tokens[i].Type = "Value"
            => \E j \in 1..(i - 1) :
                  /\ IsValueKeyword(tokens[j])
                  /\ \A k \in (j + 1)..(i - 1) : tokens[k].Type # "Value"

\* an unquoted value scanned from 0-based index p to q of input: the run has
\* no ";" and no newline and ends at one of them or at the end of the input,
\* and the value is the run without its trailing spaces and tabs
UnquotedRunOk(input, p, q, value) ==
    LET run == Slice(input, p, q)
    IN  /\ AllIn(run, ByteSet \ {59, chLF})
        /\ q = Len(input) \/ At(input, q) \in {59, chLF}
        /\ value # <<>> /\ value[Len(value)] \notin {chSpace, chTab}
        /\ HasPrefix(run, value)
        /\ AllIn(Slice(run, Len(value), Len(run)), {chSpace, chTab})

\* one turn of the scan loop and the expectation of a value
ValueStep ==
    (lexPc = "scan" /\ Len(tokens') = Len(tokens) + 1)
        => LET b  == At(lex.input, lex.pos)
               tk == tokens'[Len(tokens')]
           IN  /\ lex.expectingValue /\ IsBlankToken(tk) => lex'.expectingValue
               /\ lex.expectingValue /\ ~lex'.expectingValue
                     => b \in {34, 39, 123, 125, 59} \/ tk.Type = "Value"
               /\ lex.expectingValue /\ b \in {34, 39}
                     => tk.Type = "Value" /\ Head(tk.Value) = b /\ ~lex'.expectingValue
               /\ tk.Type = "Value" => lex.expectingValue /\ ~lex'.expectingValue
               /\ ~lex.expectingValue /\ lex'.expectingValue
                     => IsValueKeyword(tk) /\ lex'.parseMode = "Config"
               /\ tk.Type = "Value" /\ b \notin {34, 39}
                     => UnquotedRunOk(lex.input, lex.pos, lex'.pos, tk.Value)

\* C26: expectingValue is set by a value-taking keyword in Config mode,
\* stays set across whitespace and is cleared only by a quote, a brace, a
\* semicolon or the scan of an unquoted value; a quoted string met while it
\* is set has kind value; an unquoted run is one value token that ends
\* before the next ";", newline or end of input and has no trailing space
\* or tab; every value token follows a value-taking keyword of its own
C26_ValueExpectation ==
    /\ []ValuesFollowKeywords
    /\ [][ValueStep]_vars

\* "description a ;" scanned: keyword, blank, value "a", semicolon
C26_Witness ==
    /\ lexPc = "scan" /\ Len(tokens) = 4
    /\ IsValueKeyword(tokens[1]) /\ IsBlankToken(tokens[2])
    /\ tokens[3] = Token("Value", <<97>>, 1, 13)
    /\ tokens[4].Type = "Semicolon"
    /\ ~lex.expectingValue

\* the call of nextToken the scan loop is about to make moves the cursor
\* forward, not beyond the end, and returns a token with a value
NextTokenAdvances ==
    (lexPc = "scan" /\ lex.pos < Len(lex.input))
        => LET r == nextToken(lex)
           IN  /\ r.lex.pos > lex.pos
               /\ r.lex.pos <= Len(lex.input)
               /\ r.tok.Value # <<>>

\* the loop has run at most as many turns as bytes were consumed
TurnsBounded == lexPc = "scan" => Len(tokens) <= lex.pos /\ lex.pos <= Len(lex.input)

NoEmptyToken == \A i \in 1..Len(tokens) : tokens[i].Value # <<>>

\* the trailing command of a prompt is shorter than the chunk
CommandShorter ==
    LET m == PromptMatch(lex.input)
    IN  m.ok => Len(TrimSpace(m.g[8])) < Len(lex.input)

\* C28: Tokenize terminates on every input: each nextToken call advances
\* the cursor by at least one byte, so the loop runs at most len(input)
\* times and emits no empty-valued token, and the trailing command of a
\* prompt is tokenized on a strictly shorter string
C28_Progress == NextTokenAdvances /\ TurnsBounded /\ NoEmptyToken /\ CommandShorter

\* a scan that took as many turns as the input has bytes
C28_Witness ==
    /\ lexPc = "done" /\ ~PromptMatch(lex.input).ok
    /\ Len(lex.input) >= 3
    /\ Len(tokens) = Len(lex.input)

=============================================================================
